---- MODULE Spec2Model ----
(***************************************************************************)
(* The authoritative simulation of agar3d: GameServer (gameServer.js),     *)
(* ServerPlayer (serverPlayer.js), ServerFood (serverFood.js) and the      *)
(* server PhysicsSystem (unnamed/part_000, lines 583-773).                 *)
(*                                                                         *)
(* Numbers.  The program computes in IEEE doubles; the model computes in   *)
(* fixed point, truncating toward zero:                                    *)
(*   lengths and positions   1 world unit   = Unit    (= 100)              *)
(*   velocities              1 unit/second  = Unit                         *)
(*   masses, food values     1 mass unit    = MassOne (= 10000)            *)
(*   scores                  1 point        = MassOne                      *)
(*   unit-vector components  1.0            = NormOne (= 1000)             *)
(*   timeAlive               1 second       = tickRate (one tick = 1)      *)
(*   splitForce              1 unit         = ForceOne (= 30; the decay of *)
(*                                            2 per second is 1 per tick)  *)
(*   hover phase             1 radian       = NormOne                      *)
(* radius is the truncated cube root of the mass, in Unit.                 *)
(*                                                                         *)
(* Food.  this.foods holds up to maxFood items spread over the world.      *)
(* Spec and SpecCapacity carry the items within reach of the players they  *)
(* move (NearFood items next to the spawn ring, and what the ticks draw);  *)
(* the map is below minFood there, so that every tick respawns.  SpecFood  *)
(* carries the whole map from spawnInitialFood() on; the properties about  *)
(* the size of the map are checked under SpecFood.                         *)
(* console.log lines are diagnostics and are not modelled.                 *)
(***************************************************************************)
EXTENDS Integers, Sequences, FiniteSets, TLC

\* ------------------------------------------------------------------------
\* Program constants (GameServer.constructor)
worldSize == 500
maxPlayers == 50
maxFood == 1000
minFood == 800
foodSpawnRate == 20
tickRate == 60

\* Fixed-point scales
Unit == 10 * 10
MassOne == Unit * Unit
NormOne == 10 * Unit
ForceOne == tickRate \div 2

\* ------------------------------------------------------------------------
\* Arithmetic helpers

\* An array built by a loop or by Array.from / map: the elements are
\* computed once, in order
Array(f) == f \o << >>

Abs(a) == IF a < 0 THEN -a ELSE a
Min(a, b) == IF a <= b THEN a ELSE b
Max(a, b) == IF a >= b THEN a ELSE b

\* a / b truncated toward zero, b # 0
Quot(a, b) ==
    IF (a >= 0) = (b > 0) THEN Abs(a) \div Abs(b) ELSE -(Abs(a) \div Abs(b))

\* Math.floor(a / b), b > 0
FloorDiv(a, b) == a \div b

\* Math.ceil(a / b), a >= 0, b > 0
CeilDiv(a, b) == (a + b - 1) \div b

RECURSIVE SqrtSearch(_, _, _)
SqrtSearch(n, lo, hi) ==
    IF lo >= hi THEN lo
    ELSE LET mid == (lo + hi + 1) \div 2
         IN  IF mid * mid <= n THEN SqrtSearch(n, mid, hi)
                               ELSE SqrtSearch(n, lo, mid - 1)

\* Math.sqrt on a squared length (Unit^2), result in Unit
ISqrt(n) == SqrtSearch(n, 0, 46340)

RECURSIVE CbrtSearch(_, _, _)
CbrtSearch(n, lo, hi) ==
    IF lo >= hi THEN lo
    ELSE LET mid == (lo + hi + 1) \div 2
         IN  IF mid * mid * mid <= n THEN CbrtSearch(n, mid, hi)
                                     ELSE CbrtSearch(n, lo, mid - 1)

\* Math.cbrt of a mass (MassOne), result a length (Unit):
\* (r / Unit)^3 = m / MassOne, so r^3 = m * Unit.  cbrt is odd.
Cbrt(m) ==
    IF m >= 0 THEN CbrtSearch(m * Unit, 0, 1290)
              ELSE -CbrtSearch((-m) * Unit, 0, 1290)

\* ------------------------------------------------------------------------
\* three.js Vector3 / Quaternion

Vec(x, y, z) == [x |-> x, y |-> y, z |-> z]
Zero3 == Vec(0, 0, 0)
Quat(x, y, z, w) == [x |-> x, y |-> y, z |-> z, w |-> w]
IdentityQuat == Quat(0, 0, 0, 1)

VAdd(a, b) == Vec(a.x + b.x, a.y + b.y, a.z + b.z)
VSub(a, b) == Vec(a.x - b.x, a.y - b.y, a.z - b.z)
VNeg(a) == Vec(-a.x, -a.y, -a.z)
\* v * (num / den)
VScale(v, num, den) ==
    Vec(Quot(v.x * num, den), Quot(v.y * num, den), Quot(v.z * num, den))
VDot(a, b) == a.x * b.x + a.y * b.y + a.z * b.z
VLengthSq(v) == VDot(v, v)
VLength(v) == ISqrt(VLengthSq(v))

\* Vector3.normalize: divideScalar(length() || 1); result in NormOne
VNormalize(v) ==
    LET len == VLength(v)
    IN  IF len = 0 THEN Zero3 ELSE VScale(v, NormOne, len)

\* Vector3.applyQuaternion for a quaternion with integer components
\* (v' = v + w t + q x t, t = 2 q x v)
ApplyQuaternion(v, q) ==
    LET tx == 2 * (q.y * v.z - q.z * v.y)
        ty == 2 * (q.z * v.x - q.x * v.z)
        tz == 2 * (q.x * v.y - q.y * v.x)
    IN  Vec(v.x + q.w * tx + q.y * tz - q.z * ty,
            v.y + q.w * ty + q.z * tx - q.x * tz,
            v.z + q.w * tz + q.x * ty - q.y * tx)

\* new Vector3(0, 0, -1).applyQuaternion(rotation).normalize(), in NormOne
Forward(rotation) == VNormalize(ApplyQuaternion(Vec(0, 0, -1), rotation))

\* ------------------------------------------------------------------------
\* ServerPlayer (serverPlayer.js)

NoParent == << >>

\* constructor(config).  A config field that is absent is 0 here, so that
\* `config.mass || 1` and `config.radius || 1` read as in the source.
ServerPlayer(config) ==
    [id          |-> config.id,
     position    |-> config.position,
     rotation    |-> IdentityQuat,
     velocity    |-> config.velocity,
     mass        |-> IF config.mass # 0 THEN config.mass ELSE MassOne,
     radius      |-> IF config.radius # 0 THEN config.radius ELSE Unit,
     maxSpeed    |-> 10 * Unit,
     score       |-> 0,
     foodEaten   |-> 0,
     playersEaten |-> 0,
     timeAlive   |-> 0,
     isFragment  |-> config.isFragment,
     parentId    |-> config.parent,
     splitForce  |-> IF config.isFragment THEN 20 * ForceOne ELSE 0]

\* update(deltaTime), deltaTime = 1 / tickRate
PlayerUpdate(p) ==
    LET moved == VAdd(p.position, VScale(p.velocity, 1, tickRate))
        forced == p.isFragment /\ p.splitForce > 0
        direction == VNormalize(p.velocity)
        \* direction * splitForce * deltaTime
        additionalForce ==
            VScale(direction, p.splitForce * Unit, NormOne * ForceOne * tickRate)
    IN  [p EXCEPT
           !.position = IF forced THEN VAdd(moved, additionalForce) ELSE moved,
           !.splitForce = IF forced THEN Max(0, p.splitForce - 1) ELSE p.splitForce,
           !.velocity = VScale(p.velocity, 95, 100),
           !.timeAlive = p.timeAlive + 1]

\* Math.floor(mass / 10)
MassTier(mass) == FloorDiv(mass, 10 * MassOne)

\* setPositionFromClient: moveSpeed = this.maxSpeed * speedFactor, with
\* speedFactor = 1 / (1 + massTier * 0.3)
MoveSpeed(p) == Quot(p.maxSpeed * 10, 10 + 3 * MassTier(p.mass))

\* a setPositionFromClient that takes the client's position as it is
SetPositionTeleports(p, clientPosition) == [p EXCEPT !.position = clientPosition]

\* setPositionFromClient(positionArray)
SetPositionFromClient(p, clientPosition) ==
    LET direction == VSub(clientPosition, p.position)
        \* distance > 0.1
        moving == VLengthSq(direction) > (Unit \div 10) * (Unit \div 10)
    IN  IF moving
        THEN [p EXCEPT !.velocity = VScale(VNormalize(direction), MoveSpeed(p), NormOne)]
        ELSE p

\* setRotationFromClient(rotationArray)
SetRotationFromClient(p, rotation) == [p EXCEPT !.rotation = rotation]

\* updateSize()
UpdateSize(p) == [p EXCEPT !.radius = Cbrt(p.mass)]

\* a grow() that adds the amount to the score as it is
GrowScoreByAmount(p, amount) ==
    LET q == UpdateSize([p EXCEPT !.mass = p.mass + amount])
    IN  [q EXCEPT
           !.score = q.score + amount,
           !.foodEaten = q.foodEaten + 1,
           !.maxSpeed = Quot(10 * Unit * 10, 10 + 3 * MassTier(q.mass))]

\* grow(amount)
Grow(p, amount) ==
    LET q == UpdateSize([p EXCEPT !.mass = p.mass + amount])
    IN  [q EXCEPT
           !.score = q.score + amount * 10,
           !.foodEaten = q.foodEaten + 1,
           !.maxSpeed = Quot(10 * Unit * 10, 10 + 3 * MassTier(q.mass))]

\* consumePlayer(otherPlayer)
ConsumePlayer(p, otherPlayer) ==
    LET growAmount == Quot(otherPlayer.mass * 8, 10)
        q == Grow(p, growAmount)
    IN  [q EXCEPT !.playersEaten = q.playersEaten + 1]

\* a split() that lets a player of mass 1 through
SplitRefusedBelowOne(p) == p.mass < MassOne

\* split(): if (this.mass < 2) return null
SplitRefused(p) == p.mass < 2 * MassOne

\* a split() that leaves the mass of the parent as it was
SplitParentKeepsMass(p) == UpdateSize(p)

\* split(): the parent after the split
SplitParent(p) == UpdateSize([p EXCEPT !.mass = Quot(p.mass, 2)])

\* split(): the fragmentConfig returned; `t` is Date.now()
SplitFragmentConfig(p, t) ==
    LET parent == SplitParent(p)
        ejectionDir == Forward(parent.rotation)
    IN  [id         |-> Append(p.id, t),
         position   |-> VAdd(parent.position,
                             VScale(ejectionDir, parent.radius + Unit \div 2, NormOne)),
         velocity   |-> VScale(ejectionDir, 20 * Unit, NormOne),
         mass       |-> parent.mass,
         radius     |-> 0,
         isFragment |-> TRUE,
         parent     |-> p.id]

\* ------------------------------------------------------------------------
\* PhysicsSystem (unnamed/part_000)

halfExtent == (worldSize * Unit) \div 2

Clamp(v) == Max(-halfExtent, Min(halfExtent, v))
AtWall(v) == v = -halfExtent \/ v = halfExtent

\* constrainToWorld(player)
ConstrainToWorld(p) ==
    LET pos == Vec(Clamp(p.position.x), Clamp(p.position.y), Clamp(p.position.z))
    IN  [p EXCEPT
           !.position = pos,
           !.velocity = Vec(IF AtWall(pos.x) THEN 0 ELSE p.velocity.x,
                            IF AtWall(pos.y) THEN 0 ELSE p.velocity.y,
                            IF AtWall(pos.z) THEN 0 ELSE p.velocity.z)]

\* sphereCollision(pos1, radius1, pos2, radius2)
SphereCollision(pos1, radius1, pos2, radius2) ==
    LET sumRadii == radius1 + radius2
    IN  VLengthSq(VSub(pos2, pos1)) <= sumRadii * sumRadii

\* checkFoodCollisions(player, foods): the foods at or after `from` that
\* the player, as it is now, collides with
FoodHits(player, fs, from) ==
    {k \in from..Len(fs) : SphereCollision(player.position, player.radius,
                                           fs[k].position, fs[k].scale)}

\* checkFoodCollisions: the loop over foods, from index `from` on.  The
\* player is the same object between two foods it eats, so the next food
\* eaten is the first of FoodHits; player.grow runs before the loop goes on.
RECURSIVE EatFrom(_, _, _, _)
EatFrom(player, foodsToRemove, fs, from) ==
    LET hits == FoodHits(player, fs, from)
    IN  IF hits = {}
        THEN [player |-> player, foodsToRemove |-> foodsToRemove]
        ELSE LET k == CHOOSE h \in hits : \A g \in hits : h <= g
             IN  EatFrom(Grow(player, fs[k].value),
                         Append(foodsToRemove,
                                [foodId |-> fs[k].id, playerId |-> player.id]),
                         fs, k + 1)

CheckFoodCollisions(player, fs) == EatFrom(player, << >>, fs, 1)

\* resolveCollision(player1, player2): the pair after the bounce
ResolveCollision(player1, player2) ==
    LET between == VSub(player2.position, player1.position)
        distance == VLength(between)
        tempVector == VNormalize(between)
        sumRadii == player1.radius + player2.radius
        overlapDistance == sumRadii - distance
        totalMass == player1.mass + player2.mass
        push1 == Quot(player2.mass * overlapDistance, 2 * totalMass)
        push2 == Quot(player1.mass * overlapDistance, 2 * totalMass)
        p1Dot == Quot(VDot(player1.velocity, tempVector), NormOne)
        p2Dot == Quot(VDot(player2.velocity, VNeg(tempVector)), NormOne)
        p1Factor == Quot(2 * player2.mass * p2Dot, totalMass)
        p2Factor == Quot(2 * player1.mass * p1Dot, totalMass)
        v1 == VAdd(player1.velocity, VScale(tempVector, p1Factor, NormOne))
        v2 == VAdd(player2.velocity, VScale(VNeg(tempVector), p2Factor, NormOne))
    IN  IF overlapDistance > 0
        THEN << [player1 EXCEPT
                   !.position = VSub(player1.position,
                                     VScale(tempVector, push1, NormOne)),
                   !.velocity = VScale(v1, 9, 10)],
                [player2 EXCEPT
                   !.position = VAdd(player2.position,
                                     VScale(tempVector, push2, NormOne)),
                   !.velocity = VScale(v2, 9, 10)] >>
        ELSE << player1, player2 >>

NoConsumption == [predator |-> 0, prey |-> 0]

\* checkPlayerCollisions(players): the inner loop over j for a fixed i.
\* The result carries playerArray (the player objects, mutated in place)
\* and the returned { predator, prey } as indices into it.
RECURSIVE CollideInner(_, _, _)
CollideInner(ps, i, j) ==
    IF j > Len(ps) THEN [players |-> ps, result |-> NoConsumption]
    ELSE IF SphereCollision(ps[i].position, ps[i].radius,
                            ps[j].position, ps[j].radius)
    THEN IF 10 * ps[i].mass > 12 * ps[j].mass
         THEN [players |-> [ps EXCEPT ![i] = ConsumePlayer(ps[i], ps[j])],
               result |-> [predator |-> i, prey |-> j]]
         ELSE IF 10 * ps[j].mass > 12 * ps[i].mass
         THEN [players |-> [ps EXCEPT ![j] = ConsumePlayer(ps[j], ps[i])],
               result |-> [predator |-> j, prey |-> i]]
         ELSE LET pair == ResolveCollision(ps[i], ps[j])
              IN  CollideInner([ps EXCEPT ![i] = pair[1], ![j] = pair[2]], i, j + 1)
    ELSE CollideInner(ps, i, j + 1)

RECURSIVE CollideOuter(_, _)
CollideOuter(ps, i) ==
    IF i > Len(ps) THEN [players |-> ps, result |-> NoConsumption]
    ELSE LET r == CollideInner(ps, i, i + 1)
         IN  IF r.result # NoConsumption THEN r ELSE CollideOuter(r.players, i + 1)

CheckPlayerCollisions(ps) == CollideOuter(ps, 1)

\* PhysicsSystem.update: the body of the loop over players, for one player
PhysicsStep(p, fs) == CheckFoodCollisions(ConstrainToWorld(PlayerUpdate(p)), fs)

RECURSIVE ConcatAll(_, _)
ConcatAll(seqs, i) ==
    IF i > Len(seqs) THEN << >> ELSE seqs[i] \o ConcatAll(seqs, i + 1)

\* PhysicsSystem.update(deltaTime, players, foods): the players after the
\* call, the returned allConsumedFood, and what the discarded call of
\* checkPlayerCollisions returned.
PhysicsUpdate(ps, fs) ==
    LET stepped == Array([i \in 1..Len(ps) |-> PhysicsStep(ps[i], fs)])
        steppedPlayers == Array([i \in 1..Len(ps) |-> stepped[i].player])
        collided == CheckPlayerCollisions(steppedPlayers)
    IN  [players |-> collided.players,
         allConsumedFood |->
             ConcatAll(Array([i \in 1..Len(ps) |-> stepped[i].foodsToRemove]), 1),
         stepped |-> steppedPlayers,
         discarded |-> collided.result]

\* ------------------------------------------------------------------------
\* ServerFood (serverFood.js)

\* pi in NormOne
PiMilli == (22 * NormOne) \div 7

\* Math.sin on a phase in NormOne, result in NormOne (Bhaskara's rational
\* approximation on each half period)
SinHalf(x) ==
    LET a == x * (PiMilli - x)
    IN  Quot(16 * NormOne * (a \div 100), (5 * PiMilli * PiMilli - 4 * a) \div 100)

Sin(phase) ==
    LET x == phase % (2 * PiMilli)
    IN  IF x <= PiMilli THEN SinHalf(x) ELSE -SinHalf(x - PiMilli)

\* constructor(config); the random hover fields are part of `config` here
ServerFood(config) ==
    [id           |-> config.id,
     position     |-> config.position,
     scale        |-> Unit \div 2,
     value        |-> IF config.value # 0 THEN config.value ELSE MassOne \div 10,
     basePosition |-> config.position,
     hoverPhase   |-> config.hoverPhase,
     hoverSpeed   |-> config.hoverSpeed,
     hoverHeight  |-> config.hoverHeight]

\* update(deltaTime)
FoodUpdate(food) ==
    LET phase == food.hoverPhase + Quot(food.hoverSpeed, tickRate)
    IN  [food EXCEPT
           !.hoverPhase = phase,
           !.position.y = food.basePosition.y
                          + Quot(Sin(phase) * food.hoverHeight, NormOne)]

FoodToClientData(food) ==
    [id |-> food.id, position |-> food.position, scale |-> food.scale,
     value |-> food.value]

\* toClientData(); scale is (radius, radius, radius): the constructor and
\* updateSize set the two together
PlayerToClientData(p) ==
    [id |-> p.id, position |-> p.position, rotation |-> p.rotation,
     scale |-> p.radius, mass |-> p.mass]

\* ------------------------------------------------------------------------
\* Map operations (a Map iterates in insertion order; set() of a present
\* key keeps its place)

Has(m, id) == \E i \in 1..Len(m) : m[i].id = id
IndexOf(m, id) == CHOOSE i \in 1..Len(m) : m[i].id = id
Get(m, id) == m[IndexOf(m, id)]
MapSet(m, id, v) ==
    IF Has(m, id) THEN [m EXCEPT ![IndexOf(m, id)] = v] ELSE Append(m, v)
MapDelete(m, id) == SelectSeq(m, LAMBDA e : e.id # id)
Ids(m) == {m[i].id : i \in 1..Len(m)}

\* ------------------------------------------------------------------------
\* Messages handed to socket.io

ToSocket(s) == [kind |-> "socket", id |-> s]
ToOthers(s) == [kind |-> "others", id |-> s]
ToRoom(id) == [kind |-> "room", id |-> id]
ToAll == [kind |-> "all", id |-> 0]
Msg(to, event, data) == [to |-> to, event |-> event, data |-> data]

\* ------------------------------------------------------------------------
\* GameServer (gameServer.js): state

VARIABLES
    sockets,     \* socket id -> "new" | "open" | "closed"
    players,     \* this.players, in insertion order
    foods,       \* this.foods, in insertion order
    massOrbs,    \* this.massOrbs, in insertion order
    now,         \* Date.now(), milliseconds
    nextUuid,    \* the next value uuidv4() returns
    emitted,     \* what the last handler handed to socket.io, in order
    lastOp,      \* the last handler run and the socket it ran for
    consumeLog,  \* the consumePlayer calls of the last tick, in order
    ticks,       \* ticks run so far
    steps        \* handlers run so far

vars == << sockets, players, foods, massOrbs, now, nextUuid, emitted, lastOp,
           consumeLog, ticks, steps >>

PlayerId(s) == << s >>

\* what a handler was called with, when it takes a payload
NoData == [none |-> TRUE]

Op(name, s, data) == [op |-> name, socket |-> s, data |-> data]

\* ------------------------------------------------------------------------
\* GameServer: helpers of the handlers

\* a createGameState that leaves the projectiles out
CreateGameStateWithoutOrbs(ps, fs, orbs) ==
    [players  |-> [i \in 1..Len(ps) |-> PlayerToClientData(ps[i])],
     foods    |-> [i \in 1..Len(fs) |-> FoodToClientData(fs[i])],
     massOrbs |-> << >>]

\* createGameState()
CreateGameState(ps, fs, orbs) ==
    [players  |-> [i \in 1..Len(ps) |-> PlayerToClientData(ps[i])],
     foods    |-> [i \in 1..Len(fs) |-> FoodToClientData(fs[i])],
     massOrbs |-> orbs]

\* broadcastPlayerCount()
BroadcastPlayerCount(ps) ==
    Msg(ToAll, "playerCount", [count |-> Len(ps), max |-> maxPlayers])

\* spawnFood(); config is the random draw, uuid the id uuidv4() returns
SpawnFood(fs, config, uuid) ==
    IF Len(fs) >= maxFood THEN fs
    ELSE Append(fs, ServerFood([config EXCEPT !.id = uuid]))

RECURSIVE SpawnFoods(_, _, _, _)
SpawnFoods(fs, n, config, uuid) ==
    IF n <= 0 THEN fs
    ELSE SpawnFoods(SpawnFood(fs, config, uuid), n - 1, config, uuid + 1)

\* an updateFood that spawns nothing
FoodToSpawnNone(size) == 0

\* updateFood: Math.min(Math.ceil(foodSpawnRate * deltaTime), maxFood - size)
FoodToSpawn(size) == Min(CeilDiv(foodSpawnRate, tickRate), maxFood - size)

\* an updateFood that spawns one item in every tick, whatever the count
UpdateFoodUnbounded(fs, config, uuid) ==
    Append(Array([i \in 1..Len(fs) |-> FoodUpdate(fs[i])]),
           ServerFood([config EXCEPT !.id = uuid]))

\* updateFood(deltaTime)
UpdateFood(fs, config, uuid) ==
    LET hovered == Array([i \in 1..Len(fs) |-> FoodUpdate(fs[i])])
    IN  IF Len(hovered) < minFood
        THEN SpawnFoods(hovered, FoodToSpawn(Len(hovered)), config, uuid)
        ELSE hovered

\* update(): the survival score of one player
SurvivalScore(p) ==
    LET previousMinutesAlive == FloorDiv(p.timeAlive - 1, 60 * tickRate)
        currentMinutesAlive == FloorDiv(p.timeAlive, 60 * tickRate)
    IN  IF currentMinutesAlive > previousMinutesAlive
        THEN [p EXCEPT !.score = p.score + 10 * MassOne]
        ELSE p

\* constrainMassOrbToWorld(massOrb): one axis
BounceAxis(pos, vel) ==
    IF pos < -halfExtent THEN << -halfExtent, Quot(vel * (-8), 10) >>
    ELSE IF pos > halfExtent THEN << halfExtent, Quot(vel * (-8), 10) >>
    ELSE << pos, vel >>

ConstrainMassOrbToWorld(orb) ==
    LET bx == BounceAxis(orb.position.x, orb.velocity.x)
        by == BounceAxis(orb.position.y, orb.velocity.y)
        bz == BounceAxis(orb.position.z, orb.velocity.z)
    IN  [orb EXCEPT !.position = Vec(bx[1], by[1], bz[1]),
                    !.velocity = Vec(bx[2], by[2], bz[2])]

\* updateMassOrbs: the motion of one orb
MoveMassOrb(orb) ==
    ConstrainMassOrbToWorld(
        [orb EXCEPT !.position = VAdd(orb.position, VScale(orb.velocity, 1, tickRate)),
                    !.velocity = VScale(orb.velocity, 98, 100)])

\* a checkMassPlayerCollisions without the skip of the owner
CanAbsorbAlways(p, orb, t) ==
    SphereCollision(orb.position, orb.radius, p.position, p.radius)

\* checkMassPlayerCollisions: the players that can absorb the orb at time t
CanAbsorb(p, orb, t) ==
    /\ ~(p.id = orb.ownerId /\ t - orb.creationTime < 1000)
    /\ SphereCollision(orb.position, orb.radius, p.position, p.radius)

\* a loop body of updateMassOrbs that leaves an absorbed orb in the map
OrbStepKeepsOrb(acc, k, t) ==
    LET orb == acc.orbs[k]
        moved == MoveMassOrb(orb)
        eaters == {i \in 1..Len(acc.players) : CanAbsorb(acc.players[i], moved, t)}
        first == CHOOSE i \in eaters : \A j \in eaters : i <= j
    IN  IF t - orb.creationTime > orb.lifespan
        THEN [acc EXCEPT !.removed = acc.removed \cup {orb.id}]
        ELSE IF eaters # {}
        THEN [orbs    |-> [acc.orbs EXCEPT ![k] = moved],
              players |-> [acc.players EXCEPT ![first] = Grow(acc.players[first], moved.mass)],
              removed |-> acc.removed,
              msgs    |-> Append(acc.msgs, Msg(ToAll, "massConsumed", [massId |-> orb.id]))]
        ELSE [acc EXCEPT !.orbs[k] = moved]

\* the loop body of updateMassOrbs without the expiry test
OrbStepNoExpiry(acc, k, t) ==
    LET orb == acc.orbs[k]
        moved == MoveMassOrb(orb)
        eaters == {i \in 1..Len(acc.players) : CanAbsorb(acc.players[i], moved, t)}
        first == CHOOSE i \in eaters : \A j \in eaters : i <= j
    IN  IF eaters # {}
        THEN [orbs    |-> [acc.orbs EXCEPT ![k] = moved],
              players |-> [acc.players EXCEPT ![first] = Grow(acc.players[first], moved.mass)],
              removed |-> acc.removed \cup {orb.id},
              msgs    |-> Append(acc.msgs, Msg(ToAll, "massConsumed", [massId |-> orb.id]))]
        ELSE [acc EXCEPT !.orbs[k] = moved]

\* updateMassOrbs: one iteration of the loop over the orbs.
\* acc = [orbs (the map, orbs updated in place), players, removed, msgs]
OrbStep(acc, k, t) ==
    LET orb == acc.orbs[k]
        moved == MoveMassOrb(orb)
        eaters == {i \in 1..Len(acc.players) : CanAbsorb(acc.players[i], moved, t)}
        first == CHOOSE i \in eaters : \A j \in eaters : i <= j
    IN  IF t - orb.creationTime > orb.lifespan
        THEN [acc EXCEPT !.removed = acc.removed \cup {orb.id}]
        ELSE IF eaters # {}
        THEN [orbs    |-> [acc.orbs EXCEPT ![k] = moved],
              players |-> [acc.players EXCEPT ![first] = Grow(acc.players[first], moved.mass)],
              removed |-> acc.removed \cup {orb.id},
              msgs    |-> Append(acc.msgs, Msg(ToAll, "massConsumed", [massId |-> orb.id]))]
        ELSE [acc EXCEPT !.orbs[k] = moved]

RECURSIVE OrbLoop(_, _, _)
OrbLoop(acc, k, t) ==
    IF k > Len(acc.orbs) THEN acc ELSE OrbLoop(OrbStep(acc, k, t), k + 1, t)

\* updateMassOrbs(deltaTime)
UpdateMassOrbs(orbs, ps, t) ==
    LET done == OrbLoop([orbs |-> orbs, players |-> ps, removed |-> {}, msgs |-> << >>], 1, t)
    IN  [orbs    |-> SelectSeq(done.orbs, LAMBDA o : o.id \notin done.removed),
         players |-> done.players,
         msgs    |-> done.msgs]

\* a sort that leaves the array in the order of the map
InsertUnsorted(sorted, p) == Append(sorted, p)

\* Array.prototype.sort((a, b) => b.score - a.score): stable, score descending
InsertByScore(sorted, p) ==
    LET before == {k \in 1..Len(sorted) : sorted[k].score >= p.score}
        n == Cardinality(before)
    IN  SubSeq(sorted, 1, n) \o << p >> \o SubSeq(sorted, n + 1, Len(sorted))

RECURSIVE SortByScore(_, _)
SortByScore(ps, n) ==
    IF n = 0 THEN << >> ELSE InsertByScore(SortByScore(ps, n - 1), ps[n])

LeaderboardEntry(p, rank, isLocal) ==
    [mass |-> FloorDiv(p.mass, MassOne), score |-> FloorDiv(p.score, MassOne),
     rank |-> rank, id |-> p.id, isLocalPlayer |-> isLocal]

\* an updateLeaderboard that sends the top 10 only
LeaderboardTopOnly(ps, p) ==
    LET sorted == SortByScore(ps, Len(ps))
        top == SubSeq(sorted, 1, Min(10, Len(sorted)))
    IN  [k \in 1..Len(top) |-> LeaderboardEntry(top[k], k, top[k].id = p.id)]

\* updateLeaderboard(): the payload sent to room player.id
LeaderboardFor(ps, p) ==
    LET sorted == SortByScore(ps, Len(ps))
        top == SubSeq(sorted, 1, Min(10, Len(sorted)))
        inTop == \E k \in 1..Len(top) : top[k].id = p.id
        rank == CHOOSE k \in 1..Len(sorted) :
                    /\ sorted[k].id = p.id
                    /\ \A j \in 1..(k - 1) : sorted[j].id # p.id
    IN  IF inTop
        THEN [k \in 1..Len(top) |-> LeaderboardEntry(top[k], k, top[k].id = p.id)]
        ELSE [k \in 1..Len(top) |-> LeaderboardEntry(top[k], k, FALSE)]
             \o << LeaderboardEntry(p, rank, TRUE) >>

UpdateLeaderboard(ps) ==
    [i \in 1..Len(ps) |-> Msg(ToRoom(ps[i].id), "leaderboard", LeaderboardFor(ps, ps[i]))]

\* ------------------------------------------------------------------------
\* Bounds of the model and the inputs drawn

NumSockets == 2
MaxSteps == 2
MaxTicks == 2
NearFood == 10

SocketIds == 1..NumSockets

\* getRandomSpawnPosition(): radius * sin(theta) * worldSize.z / 2 with
\* theta = pi / 2 and radius 0.24 or 0.2472
SpawnA == Vec(0, 0, 60 * Unit)
SpawnB == Vec(0, 0, 60 * Unit + 180)
SpawnPositions == {SpawnA, SpawnB}

\* the draws of spawnFood(): getRandomPosition(), 0.1 + Math.random() * 0.1
\* and the hover fields of the ServerFood constructor
FoodDraw(position, value) ==
    [id |-> 0, position |-> position, value |-> value,
     hoverPhase |-> 0, hoverSpeed |-> 600, hoverHeight |-> 20]
FoodDraws == {FoodDraw(Vec(100 * Unit, 0, -100 * Unit), MassOne \div 10),
              FoodDraw(Vec(0, 0, 62 * Unit), (15 * MassOne) \div 100)}

\* updatePosition payloads
MoveData(hasPosition, position, hasRotation, rotation) ==
    [hasPosition |-> hasPosition, position |-> position,
     hasRotation |-> hasRotation, rotation |-> rotation]
MoveRequests == {MoveData(TRUE, Vec(0, 0, 260 * Unit), FALSE, IdentityQuat),
                 MoveData(TRUE, SpawnA, FALSE, IdentityQuat),
                 MoveData(FALSE, Zero3, TRUE, Quat(0, 1, 0, 0))}

\* ejectMass payloads (mass 0: the field is absent or falsy)
EjectData(mass, hasDirection, direction, hasPosition, position) ==
    [mass |-> mass, hasDirection |-> hasDirection, direction |-> direction,
     hasPosition |-> hasPosition, position |-> position]
EjectRequests == {EjectData(0, FALSE, Zero3, FALSE, Zero3),
                  EjectData(5 * MassOne, FALSE, Zero3, FALSE, Zero3),
                  EjectData(MassOne \div 2, TRUE, Vec(0, 0, 1), TRUE, SpawnB)}

\* the time that passes between two handlers, milliseconds
TimeSteps == {1000, 30000}

\* ------------------------------------------------------------------------
\* Handlers

Handled(name, s, data, msgs) ==
    /\ steps < MaxSteps
    /\ steps' = steps + 1
    /\ lastOp' = Op(name, s, data)
    /\ emitted' = msgs
    /\ ticks' = ticks

\* io.on('connection')
Connect(s) ==
    /\ sockets[s] = "new"
    /\ sockets' = [sockets EXCEPT ![s] = "open"]
    /\ Handled("connect", s, NoData,
               << Msg(ToSocket(s), "serverMessage", [type |-> "info"]),
                  Msg(ToSocket(s), "playerCount",
                      [count |-> Len(players), max |-> maxPlayers]) >>)
    /\ UNCHANGED << players, foods, massOrbs, now, nextUuid, consumeLog >>

\* handlePlayerJoin(socket, data): the world after a join that is let in
JoinedPlayers(ps, s, position) ==
    MapSet(ps, PlayerId(s),
           ServerPlayer([id |-> PlayerId(s), position |-> position,
                         velocity |-> Zero3, mass |-> 0, radius |-> 0,
                         isFragment |-> FALSE, parent |-> NoParent]))

\* a capacity test that lets one player too many in
ServerFullAbove(ps) == Len(ps) > maxPlayers

\* handlePlayerJoin: if (this.players.size >= this.maxPlayers)
ServerFull(ps) == Len(ps) >= maxPlayers

JoinMessages(ps, s) ==
    LET joined == Get(ps, PlayerId(s))
        others == SelectSeq(ps, LAMBDA q : q.id # PlayerId(s))
    IN  << Msg(ToSocket(s), "serverMessage", [type |-> "success"]) >>
        \o [i \in 1..Len(others) |->
              Msg(ToSocket(s), "playerJoined", PlayerToClientData(others[i]))]
        \o << Msg(ToSocket(s), "gameState", CreateGameState(ps, foods, massOrbs)),
              Msg(ToOthers(s), "playerJoined", PlayerToClientData(joined)),
              BroadcastPlayerCount(ps) >>

Join(s, position) ==
    /\ sockets[s] = "open"
    /\ IF ServerFull(players)
       THEN /\ players' = players
            /\ Handled("join", s, [position |-> position],
                       << Msg(ToSocket(s), "serverMessage", [type |-> "error"]) >>)
       ELSE /\ players' = JoinedPlayers(players, s, position)
            /\ Handled("join", s, [position |-> position], JoinMessages(players', s))
    /\ UNCHANGED << sockets, foods, massOrbs, now, nextUuid, consumeLog >>

\* handlePositionUpdate(playerId, data)
PositionUpdated(p, data) ==
    LET q == IF data.hasPosition THEN SetPositionFromClient(p, data.position) ELSE p
    IN  IF data.hasRotation THEN SetRotationFromClient(q, data.rotation) ELSE q

Move(s, data) ==
    /\ sockets[s] = "open"
    /\ players' = IF Has(players, PlayerId(s))
                  THEN MapSet(players, PlayerId(s),
                              PositionUpdated(Get(players, PlayerId(s)), data))
                  ELSE players
    /\ Handled("move", s, data, << >>)
    /\ UNCHANGED << sockets, foods, massOrbs, now, nextUuid, consumeLog >>

\* handlePlayerSplit(playerId): the player map after a split that goes through
SplitPlayers(ps, id, t) ==
    LET p == Get(ps, id)
        fragmentConfig == SplitFragmentConfig(p, t)
        fragmentPlayer == [ServerPlayer(fragmentConfig)
                           EXCEPT !.velocity = fragmentConfig.velocity]
    IN  MapSet(MapSet(ps, id, SplitParent(p)), fragmentConfig.id, fragmentPlayer)

Split(s) ==
    /\ sockets[s] = "open"
    /\ IF Has(players, PlayerId(s)) /\ ~SplitRefused(Get(players, PlayerId(s)))
       THEN /\ players' = SplitPlayers(players, PlayerId(s), now)
            /\ Handled("split", s, NoData,
                       << Msg(ToAll, "playerSplit",
                              [parentId |-> PlayerId(s),
                               fragment |-> PlayerToClientData(
                                   Get(players', Append(PlayerId(s), now)))]) >>)
       ELSE /\ players' = players
            /\ Handled("split", s, NoData, << >>)
    /\ UNCHANGED << sockets, foods, massOrbs, now, nextUuid, consumeLog >>

\* a handlePlayerBoost that announces the boost without looking the player up
BoostAnnounced(s) ==
    /\ sockets[s] = "open"
    /\ Handled("boost", s, NoData,
               << Msg(ToAll, "playerBoosted", [id |-> PlayerId(s)]) >>)
    /\ UNCHANGED << sockets, players, foods, massOrbs, now, nextUuid, consumeLog >>

\* handlePlayerBoost(playerId): ServerPlayer.boost() has an empty body and
\* returns undefined
Boost(s) ==
    /\ sockets[s] = "open"
    /\ Handled("boost", s, NoData, << >>)
    /\ UNCHANGED << sockets, players, foods, massOrbs, now, nextUuid, consumeLog >>

\* handlePlayerEjectMass: const MIN_MASS_TO_EJECT = 2
MIN_MASS_TO_EJECT == 2

\* handlePlayerEjectMass: data && data.mass ? data.mass : 1
EjectedMassAmount(data) == IF data.mass # 0 THEN data.mass ELSE MassOne

\* a threshold test that lets a player of mass 1 through
EjectRefusedBelowOne(p) == p.mass < MassOne

\* handlePlayerEjectMass: if (player.mass < MIN_MASS_TO_EJECT) return
EjectRefused(p) == p.mass < MIN_MASS_TO_EJECT * MassOne

\* an ejection that always takes the default amount from the player
EjectPlayerByOne(p, data) == UpdateSize([p EXCEPT !.mass = p.mass - MassOne])

\* handlePlayerEjectMass: the player after the ejection
EjectPlayer(p, data) == UpdateSize([p EXCEPT !.mass = p.mass - EjectedMassAmount(data)])

\* handlePlayerEjectMass: the massOrb object; `t` is Date.now()
EjectOrb(p, data, uuid, t) ==
    LET q == EjectPlayer(p, data)
        direction == IF data.hasDirection THEN VNormalize(data.direction)
                                          ELSE Forward(q.rotation)
        spawnPosition ==
            IF data.hasPosition THEN data.position
            ELSE VAdd(q.position, VScale(direction, q.radius + Unit \div 2, NormOne))
    IN  [id           |-> uuid,
         position     |-> spawnPosition,
         velocity     |-> VScale(direction, 20 * Unit, NormOne),
         ownerId      |-> p.id,
         mass         |-> EjectedMassAmount(data),
         radius       |-> Cbrt(EjectedMassAmount(data)),
         creationTime |-> t,
         lifespan     |-> 30000]

EjectMass(s, data) ==
    /\ sockets[s] = "open"
    /\ IF Has(players, PlayerId(s)) /\ ~EjectRefused(Get(players, PlayerId(s)))
       THEN LET p == Get(players, PlayerId(s))
                massOrb == EjectOrb(p, data, nextUuid, now)
            IN  /\ players' = MapSet(players, p.id, EjectPlayer(p, data))
                /\ massOrbs' = MapSet(massOrbs, massOrb.id, massOrb)
                /\ nextUuid' = nextUuid + 1
                /\ Handled("eject", s, data, << Msg(ToAll, "massEjected", massOrb) >>)
       ELSE /\ UNCHANGED << players, massOrbs, nextUuid >>
            /\ Handled("eject", s, data, << >>)
    /\ UNCHANGED << sockets, foods, now, consumeLog >>

\* a handlePlayerDisconnect without the has(playerId) test
HandlePlayerDisconnectAlways(ps, id) ==
    [players |-> MapDelete(ps, id),
     msgs    |-> << Msg(ToAll, "playerLeft", [id |-> id]),
                    BroadcastPlayerCount(MapDelete(ps, id)) >>]

\* a handlePlayerDisconnect that takes the fragments of the player along
HandlePlayerDisconnectWithFragments(ps, id) ==
    IF Has(ps, id)
    THEN [players |-> SelectSeq(ps, LAMBDA q : q.id # id /\ q.parentId # id),
          msgs    |-> << Msg(ToAll, "playerLeft", [id |-> id]),
                         BroadcastPlayerCount(MapDelete(ps, id)) >>]
    ELSE [players |-> ps, msgs |-> << >>]

\* handlePlayerDisconnect(playerId): the player map after the call and what
\* it emitted
HandlePlayerDisconnect(ps, id) ==
    IF Has(ps, id)
    THEN [players |-> MapDelete(ps, id),
          msgs    |-> << Msg(ToAll, "playerLeft", [id |-> id]),
                         BroadcastPlayerCount(MapDelete(ps, id)) >>]
    ELSE [players |-> ps, msgs |-> << >>]

\* socket.on('disconnect') -> handlePlayerDisconnect(socket.id).  socket.io
\* raises the event once per socket; the handler is also run here for a
\* socket that is already closed, which is the call made a second time.
Disconnect(s) ==
    /\ sockets[s] \in {"open", "closed"}
    /\ sockets' = [sockets EXCEPT ![s] = "closed"]
    /\ players' = HandlePlayerDisconnect(players, PlayerId(s)).players
    /\ Handled("disconnect", s, NoData,
               HandlePlayerDisconnect(players, PlayerId(s)).msgs)
    /\ UNCHANGED << foods, massOrbs, now, nextUuid, consumeLog >>

\* The wall clock advances between two handlers
TimePasses(d) ==
    /\ now' = now + d
    /\ Handled("time", 0, NoData, << >>)
    /\ UNCHANGED << sockets, players, foods, massOrbs, nextUuid, consumeLog >>

\* ------------------------------------------------------------------------
\* update(deltaTime): one tick of the game loop (isRunning is true from
\* init() on; shutdown() is not modelled)

\* what consumePlayer was called with, for consumeLog
Consumed(ps, before, result, call) ==
    [predator     |-> ps[result.predator].id,
     prey         |-> ps[result.prey].id,
     predatorMass |-> before[result.predator].mass,
     preyMass     |-> before[result.prey].mass,
     call         |-> call]

\* update(): what the tick hands to socket.io, in order: foodConsumed for
\* each entry of allConsumedFood, playerConsumed, foodSpawned, massConsumed,
\* the gameState broadcast and the leaderboards
TickMessages(physics, second, foods1, foods2, orbsDone) ==
    [k \in 1..Len(physics.allConsumedFood) |->
        Msg(ToAll, "foodConsumed", physics.allConsumedFood[k])]
    \o (IF second.result # NoConsumption
        THEN << Msg(ToAll, "playerConsumed",
                    [predatorId |-> second.players[second.result.predator].id,
                     preyId |-> second.players[second.result.prey].id]) >>
        ELSE << >>)
    \o [k \in 1..(Len(foods2) - Len(foods1)) |->
          Msg(ToAll, "foodSpawned", FoodToClientData(foods2[Len(foods1) + k]))]
    \o orbsDone.msgs
    \o << Msg(ToAll, "gameState",
              CreateGameState(orbsDone.players, foods2, orbsDone.orbs)) >>
    \o UpdateLeaderboard(orbsDone.players)

\* the consumePlayer calls of the tick: the one made inside physics.update,
\* whose result is dropped, and the one made by update() itself
TickLog(physics, second) ==
    (IF physics.discarded # NoConsumption
     THEN << Consumed(physics.players, physics.stepped, physics.discarded, 1) >>
     ELSE << >>)
    \o (IF second.result # NoConsumption
        THEN << Consumed(second.players, physics.players, second.result, 2) >>
        ELSE << >>)

\* update(): the world after updateFood and updateMassOrbs
TickEnd(physics, second, foods1, foods2, orbsDone, uuid) ==
    [players  |-> orbsDone.players,
     foods    |-> foods2,
     massOrbs |-> orbsDone.orbs,
     uuid     |-> uuid + (Len(foods2) - Len(foods1)),
     log      |-> TickLog(physics, second),
     msgs     |-> TickMessages(physics, second, foods1, foods2, orbsDone)]

\* update(): this.players.delete(prey.id) when the second
\* checkPlayerCollisions returned a pair
PlayersLeft(second) ==
    IF second.result # NoConsumption
    THEN MapDelete(second.players, second.players[second.result.prey].id)
    ELSE second.players

\* update(): from the second checkPlayerCollisions on
TickCollisions(physics, second, foods1, orbs, t, draw, uuid) ==
    TickEnd(physics, second, foods1, UpdateFood(foods1, draw, uuid),
            UpdateMassOrbs(orbs, PlayersLeft(second), t), uuid)

\* update(): this.foods.delete(foodId) for each entry of consumedFood
FoodsLeft(fs, consumedFood) ==
    SelectSeq(fs, LAMBDA f :
        \A k \in 1..Len(consumedFood) : consumedFood[k].foodId # f.id)

\* update(): from the return of physics.update on
TickPhysics(physics, fs, orbs, t, draw, uuid) ==
    TickCollisions(physics, CheckPlayerCollisions(physics.players),
                   FoodsLeft(fs, physics.allConsumedFood), orbs, t, draw, uuid)

\* update(deltaTime): the world after the tick, what it emitted and the
\* consumePlayer calls it made
TickResult(ps, fs, orbs, t, draw, uuid) ==
    TickPhysics(PhysicsUpdate(Array([i \in 1..Len(ps) |-> SurvivalScore(ps[i])]), fs),
                fs, orbs, t, draw, uuid)

Tick(draw) ==
    /\ ticks < MaxTicks
    /\ \E r \in {TickResult(players, foods, massOrbs, now, draw, nextUuid)} :
           /\ players' = r.players
           /\ foods' = r.foods
           /\ massOrbs' = r.massOrbs
           /\ nextUuid' = r.uuid
           /\ consumeLog' = r.log
           /\ emitted' = r.msgs
    /\ lastOp' = Op("tick", 0, NoData)
    /\ ticks' = ticks + 1
    /\ UNCHANGED << sockets, now, steps >>

\* ------------------------------------------------------------------------
\* Initial states

NoOp == Op("init", 0, NoData)

\* The food lying next to SpawnA
FreshFoods ==
    [k \in 1..NearFood |->
        ServerFood([FoodDraw(Vec(0, 0, 60 * Unit - 60 + k), (15 * MassOne) \div 100)
                    EXCEPT !.id = k])]

\* The world with no session and NearFood items of food next to SpawnA
InitFresh ==
    /\ sockets = [s \in SocketIds |-> "new"]
    /\ players = << >>
    /\ foods = FreshFoods
    /\ massOrbs = << >>
    /\ now = 0
    /\ nextUuid = NearFood + 1
    /\ emitted = << >>
    /\ lastOp = NoOp
    /\ consumeLog = << >>
    /\ ticks = 0
    /\ steps = 0

\* A player that has walked for five minutes, eaten nothing and come to rest
Walker(s, position) ==
    [ServerPlayer([id |-> PlayerId(s), position |-> position, velocity |-> Zero3,
                   mass |-> 0, radius |-> 0, isFragment |-> FALSE,
                   parent |-> NoParent])
     EXCEPT !.timeAlive = 5 * 60 * tickRate, !.score = 5 * 10 * MassOne]

\* The world with two players at rest next to the +z wall, no food within
\* their reach
InitWall ==
    /\ sockets = [s \in SocketIds |-> IF s <= 2 THEN "open" ELSE "new"]
    /\ players = << Walker(1, Vec(0, 0, halfExtent)),
                    Walker(2, Vec(0, 0, halfExtent - 210)) >>
    /\ foods = << >>
    /\ massOrbs = << >>
    /\ now = 0
    /\ nextUuid = 1
    /\ emitted = << >>
    /\ lastOp = NoOp
    /\ consumeLog = << >>
    /\ ticks = 0
    /\ steps = 0

\* The world of InitFresh after socket 1 has joined at SpawnA and one tick
\* has run: its player has eaten the food next to SpawnA
AfterFirstTick ==
    TickResult(JoinedPlayers(<< >>, 1, SpawnA), FreshFoods, << >>, 0,
               FoodDraw(Vec(100 * Unit, 0, -100 * Unit), MassOne \div 10),
               NearFood + 1)

InitHunt ==
    /\ sockets = [s \in SocketIds |-> IF s = 1 THEN "open" ELSE "new"]
    /\ players = AfterFirstTick.players
    /\ foods = AfterFirstTick.foods
    /\ massOrbs = << >>
    /\ now = 0
    /\ nextUuid = AfterFirstTick.uuid
    /\ emitted = << >>
    /\ lastOp = NoOp
    /\ consumeLog = << >>
    /\ ticks = 0
    /\ steps = 0

Init == InitFresh \/ InitHunt \/ InitWall

\* ------------------------------------------------------------------------
\* The specification

Next ==
    \/ \E s \in SocketIds : Connect(s)
    \/ \E s \in SocketIds, position \in SpawnPositions : Join(s, position)
    \/ \E s \in SocketIds, data \in MoveRequests : Move(s, data)
    \/ \E s \in SocketIds : Split(s)
    \/ \E s \in SocketIds : Boost(s)
    \/ \E s \in SocketIds, data \in EjectRequests : EjectMass(s, data)
    \/ \E s \in SocketIds : Disconnect(s)
    \/ \E d \in TimeSteps : TimePasses(d)
    \/ \E draw \in FoodDraws : Tick(draw)

Spec == Init /\ [][Next]_vars

\* ------------------------------------------------------------------------
\* The server from its construction on, with the whole food population

FoodGap == 2

\* the draw of the k-th spawnFood() of spawnInitialFood(): the first NearFood
\* items next to SpawnA, the others on a grid in the z < 0 half of the world
InitialFoodDraw(k) ==
    IF k <= NearFood
    THEN FoodDraw(Vec(0, 0, 60 * Unit - 60 + k), (15 * MassOne) \div 100)
    ELSE FoodDraw(Vec(((k % 40) - 20) * 5 * Unit, 0, -(50 + 5 * (k \div 40)) * Unit),
                  MassOne \div 10)

\* spawnInitialFood(): maxFood calls of spawnFood() on the empty map
SpawnInitialFood ==
    Array([k \in 1..maxFood |-> ServerFood([InitialFoodDraw(k) EXCEPT !.id = k])])

\* init(): the state the constructor leaves
InitFoodFull ==
    /\ sockets = [s \in SocketIds |-> "new"]
    /\ players = << >>
    /\ foods = SpawnInitialFood
    /\ massOrbs = << >>
    /\ now = 0
    /\ nextUuid = maxFood + 1
    /\ emitted = << >>
    /\ lastOp = NoOp
    /\ consumeLog = << >>
    /\ ticks = 0
    /\ steps = 0

\* A later state: players that have left ate the oldest food, down to
\* FoodGap items below minFood
InitFoodLow ==
    /\ sockets = [s \in SocketIds |-> "new"]
    /\ players = << >>
    /\ foods = SubSeq(SpawnInitialFood, maxFood - (minFood - FoodGap) + 1, maxFood)
    /\ massOrbs = << >>
    /\ now = 0
    /\ nextUuid = maxFood + 1
    /\ emitted = << >>
    /\ lastOp = NoOp
    /\ consumeLog = << >>
    /\ ticks = 0
    /\ steps = 0

InitFood == InitFoodFull \/ InitFoodLow

\* one session; SpawnA is next to the first food drawn
NextFood ==
    \/ Connect(1)
    \/ \E position \in SpawnPositions : Join(1, position)
    \/ \E data \in MoveRequests : Move(1, data)
    \/ Disconnect(1)
    \/ \E draw \in FoodDraws : Tick(draw)

\* a step of the game loop: under NextFood these are the Tick steps, and
\* one is possible exactly when Tick is
LoopStep == ticks < MaxTicks /\ ticks' = ticks + 1

\* startGameLoop(): setInterval keeps calling update()
SpecFood ==
    /\ InitFood
    /\ [][NextFood]_vars
    /\ WF_ticks(LoopStep)

\* ------------------------------------------------------------------------
\* The server one player short of maxPlayers

\* the player of another session, at rest away from the spawn ring and
\* from the food
OtherPlayer(k) ==
    ServerPlayer([id |-> PlayerId(NumSockets + k),
                  position |-> Vec((k - maxPlayers \div 2) * 4 * Unit, 0, -100 * Unit),
                  velocity |-> Zero3, mass |-> 0, radius |-> 0,
                  isFragment |-> FALSE, parent |-> NoParent])

\* maxPlayers - 1 players of other sessions; sockets 1 and 2 are connected
\* and have not joined
InitOneShort ==
    /\ sockets = [s \in SocketIds |-> IF s <= 2 THEN "open" ELSE "new"]
    /\ players = Array([k \in 1..(maxPlayers - 1) |-> OtherPlayer(k)])
    /\ foods = << >>
    /\ massOrbs = << >>
    /\ now = 0
    /\ nextUuid = 1
    /\ emitted = << >>
    /\ lastOp = NoOp
    /\ consumeLog = << >>
    /\ ticks = 0
    /\ steps = 0

\* maxPlayers players of other sessions; socket 1 is connected and has not
\* joined
InitFull ==
    /\ sockets = [s \in SocketIds |-> IF s = 1 THEN "open" ELSE "new"]
    /\ players = Array([k \in 1..maxPlayers |-> OtherPlayer(k)])
    /\ foods = << >>
    /\ massOrbs = << >>
    /\ now = 0
    /\ nextUuid = 1
    /\ emitted = << >>
    /\ lastOp = NoOp
    /\ consumeLog = << >>
    /\ ticks = 0
    /\ steps = 0

InitCapacity == InitOneShort \/ InitFull

NextCapacity ==
    \/ \E s \in SocketIds : Connect(s)
    \/ \E s \in SocketIds, position \in SpawnPositions : Join(s, position)
    \/ \E s \in SocketIds, data \in MoveRequests : Move(s, data)
    \/ \E s \in SocketIds : Disconnect(s)

SpecCapacity == InitCapacity /\ [][NextCapacity]_vars

\* ------------------------------------------------------------------------
\* The server with two players that have grown

\* the mass of the projectile a player has absorbed
SpeedMeals == {MassOne, 9 * MassOne, 29 * MassOne}

\* Sockets 1 and 2 have joined at (0, 0, 60) and (0, 0, -60), on the spawn
\* ring.  A third player, which has left since, has ejected a projectile of
\* mass a onto the first and one of mass b onto the second (ejectMass takes
\* the mass and the position from the client), and one tick has run: each
\* player has absorbed its projectile.
InitSpeed ==
    \E a \in SpeedMeals, b \in SpeedMeals :
       LET ejector == ServerPlayer([id |-> PlayerId(NumSockets + 1), position |-> Zero3,
                                    velocity |-> Zero3, mass |-> 40 * MassOne,
                                    radius |-> 0, isFragment |-> FALSE,
                                    parent |-> NoParent])
           south == Vec(0, 0, -60 * Unit)
           orbs == << EjectOrb(ejector, EjectData(a, TRUE, Vec(0, 1, 0), TRUE, SpawnA), 1, 0),
                      EjectOrb(ejector, EjectData(b, TRUE, Vec(0, 1, 0), TRUE, south), 2, 0) >>
           world == TickResult(JoinedPlayers(JoinedPlayers(<< >>, 1, SpawnA), 2, south),
                               << >>, orbs, 0,
                               FoodDraw(Vec(100 * Unit, 0, -100 * Unit), MassOne \div 10), 3)
       IN  /\ sockets = [s \in SocketIds |-> IF s <= 2 THEN "open" ELSE "new"]
           /\ players = world.players
           /\ foods = world.foods
           /\ massOrbs = world.massOrbs
           /\ now = 0
           /\ nextUuid = world.uuid
           /\ emitted = << >>
           /\ lastOp = NoOp
           /\ consumeLog = << >>
           /\ ticks = 0
           /\ steps = 0

NextSpeed ==
    \/ \E s \in SocketIds, data \in MoveRequests : Move(s, data)
    \/ \E s \in SocketIds : Split(s)
    \/ \E s \in SocketIds : Boost(s)
    \/ \E s \in SocketIds, data \in EjectRequests : EjectMass(s, data)

SpecSpeed == InitSpeed /\ [][NextSpeed]_vars

\* ------------------------------------------------------------------------
\* The server with more players than the leaderboard lists

BoardPlayers == 11

\* BoardPlayers players of other sessions have joined and one tick has run,
\* in which the k-th of them has eaten the k % 4 food items lying on it;
\* the sockets of SocketIds are connected and have not joined.
InitBoard ==
    LET lying == SelectSeq([n \in 1..(4 * BoardPlayers) |->
                               ServerFood([FoodDraw(OtherPlayer(((n - 1) \div 4) + 1).position,
                                                    MassOne \div 10)
                                           EXCEPT !.id = n])],
                           LAMBDA f : ((f.id - 1) % 4) + 1 <= (((f.id - 1) \div 4) + 1) % 4)
        world == TickResult(Array([k \in 1..BoardPlayers |-> OtherPlayer(k)]), lying,
                            << >>, 0,
                            FoodDraw(Vec(0, 0, 62 * Unit), (15 * MassOne) \div 100),
                            4 * BoardPlayers + 1)
    IN  /\ sockets = [s \in SocketIds |-> "open"]
        /\ players = world.players
        /\ foods = world.foods
        /\ massOrbs = << >>
        /\ now = 0
        /\ nextUuid = world.uuid
        /\ emitted = << >>
        /\ lastOp = NoOp
        /\ consumeLog = << >>
        /\ ticks = 0
        /\ steps = 0

\* the food a tick draws lands away from the players
NextBoard ==
    \/ \E s \in SocketIds, position \in SpawnPositions : Join(s, position)
    \/ \E s \in SocketIds : Disconnect(s)
    \/ Tick(FoodDraw(Vec(100 * Unit, 0, -100 * Unit), MassOne \div 10))

SpecBoard == InitBoard /\ [][NextBoard]_vars

\* ------------------------------------------------------------------------
\* The server with one food item at the edge of a player's reach

\* the hoverPhase, hoverSpeed and hoverHeight the ServerFood constructor
\* draws (phase in [0, 2 pi), speed in [0.5, 1), height in [0.1, 0.3))
HoverStates == {[phase |-> 0, speed |-> 600, height |-> 20],
                [phase |-> PiMilli \div 2, speed |-> 600, height |-> 29]}

\* The world in which a food item was spawned 1.48 from SpawnA with the
\* hover fields h and has been through one tick, socket 1 then joined at
\* SpawnA, and n more ticks have run, each drawing its food away from the
\* player
RECURSIVE HoverRun(_, _)
HoverRun(h, n) ==
    IF n = 0
    THEN LET item == ServerFood([FoodDraw(Vec(0, 0, 60 * Unit + 148), MassOne \div 10)
                                 EXCEPT !.id = 1, !.hoverPhase = h.phase,
                                        !.hoverSpeed = h.speed,
                                        !.hoverHeight = h.height])
             before == TickResult(<< >>, << item >>, << >>, 0,
                                  FoodDraw(Vec(100 * Unit, 0, -100 * Unit), MassOne \div 10),
                                  2)
         IN  [before EXCEPT !.players = JoinedPlayers(<< >>, 1, SpawnA)]
    ELSE LET w == HoverRun(h, n - 1)
         IN  TickResult(w.players, w.foods, w.massOrbs, 0,
                        FoodDraw(Vec(100 * Unit, 0, -100 * Unit), MassOne \div 10),
                        w.uuid)

InitHover ==
    \E h \in HoverStates : \E w \in {HoverRun(h, 0)} :
       /\ sockets = [s \in SocketIds |-> IF s = 1 THEN "open" ELSE "new"]
       /\ players = w.players
       /\ foods = w.foods
       /\ massOrbs = << >>
       /\ now = 0
       /\ nextUuid = w.uuid
       /\ emitted = << >>
       /\ lastOp = NoOp
       /\ consumeLog = << >>
       /\ ticks = 0
       /\ steps = 0

\* the food a tick draws lands away from the players
NextHover ==
    \/ \E s \in SocketIds : Connect(s)
    \/ \E s \in SocketIds, position \in SpawnPositions : Join(s, position)
    \/ \E s \in SocketIds, data \in MoveRequests : Move(s, data)
    \/ \E s \in SocketIds : Disconnect(s)
    \/ Tick(FoodDraw(Vec(100 * Unit, 0, -100 * Unit), MassOne \div 10))

SpecHover == InitHover /\ [][NextHover]_vars

\* ------------------------------------------------------------------------
\* The server with a player heavy enough to eject, and the game loop running

\* the clock advances by 1 s, by the lifespan of a projectile or by 1 ms more
NextOrbs ==
    \/ \E s \in SocketIds, data \in EjectRequests : EjectMass(s, data)
    \/ \E s \in SocketIds, data \in MoveRequests : Move(s, data)
    \/ \E d \in {1000, 30000, 30001} : TimePasses(d)
    \/ Tick(FoodDraw(Vec(100 * Unit, 0, -100 * Unit), MassOne \div 10))

\* startGameLoop(): setInterval keeps calling update()
SpecOrbs ==
    /\ InitHunt
    /\ [][NextOrbs]_vars
    /\ WF_ticks(LoopStep)

\* ------------------------------------------------------------------------
\* ServerPlayer.grow on its own

\* two players on the move, of mass 1, 2.5 or 9.95
InitGrow ==
    \E m1 \in {MassOne, 25 * (MassOne \div 10), 995 * (MassOne \div 100)},
       m2 \in {MassOne, 25 * (MassOne \div 10), 995 * (MassOne \div 100)} :
       /\ sockets = [s \in SocketIds |-> IF s <= 2 THEN "open" ELSE "new"]
       /\ players = << UpdateSize(ServerPlayer(
                          [id |-> PlayerId(1), position |-> SpawnA,
                           velocity |-> Vec(3 * Unit, 0, 0), mass |-> m1,
                           radius |-> 0, isFragment |-> FALSE, parent |-> NoParent])),
                       UpdateSize(ServerPlayer(
                          [id |-> PlayerId(2), position |-> Vec(0, 0, -60 * Unit),
                           velocity |-> Vec(0, 0, 2 * Unit), mass |-> m2,
                           radius |-> 0, isFragment |-> FALSE, parent |-> NoParent])) >>
       /\ foods = << >>
       /\ massOrbs = << >>
       /\ now = 0
       /\ nextUuid = 1
       /\ emitted = << >>
       /\ lastOp = NoOp
       /\ consumeLog = << >>
       /\ ticks = 0
       /\ steps = 0

\* player.grow(amount) with the value of a food item, the mass of a
\* projectile or 80% of the mass of a player of mass 10
NextGrow ==
    \E i \in 1..Len(players),
       amount \in {MassOne \div 10, 15 * (MassOne \div 100), MassOne, 8 * MassOne} :
       /\ players' = [players EXCEPT ![i] = Grow(players[i], amount)]
       /\ Handled("grow", i, [amount |-> amount], << >>)
       /\ UNCHANGED << sockets, foods, massOrbs, now, nextUuid, consumeLog >>

SpecGrow == InitGrow /\ [][NextGrow]_vars

\* ------------------------------------------------------------------------
\* The server with a grown player and two fresh ones within its reach

\* The world of InitHunt after socket 2 and the socket of another session
\* have joined, at SpawnB and at either spawn position: the grown player of
\* socket 1 overlaps both
InitPairs ==
    \E position \in SpawnPositions :
       /\ sockets = [s \in SocketIds |-> IF s <= 2 THEN "open" ELSE "new"]
       /\ players = MapSet(JoinedPlayers(AfterFirstTick.players, 2, SpawnB),
                           PlayerId(NumSockets + 1),
                           [OtherPlayer(1) EXCEPT !.position = position])
       /\ foods = AfterFirstTick.foods
       /\ massOrbs = << >>
       /\ now = 0
       /\ nextUuid = AfterFirstTick.uuid
       /\ emitted = << >>
       /\ lastOp = NoOp
       /\ consumeLog = << >>
       /\ ticks = 0
       /\ steps = 0

SpecPairs == InitPairs /\ [][NextBoard]_vars

\* ------------------------------------------------------------------------
\* The server at maxPlayers, one of the players heavy enough to split

\* maxPlayers - 1 players of other sessions and the grown player of socket
\* 1; socket 2 is connected and has not joined
InitCrowd ==
    /\ sockets = [s \in SocketIds |-> IF s <= 2 THEN "open" ELSE "new"]
    /\ players = AfterFirstTick.players
                    \o Array([k \in 1..(maxPlayers - 1) |-> OtherPlayer(k)])
    /\ foods = AfterFirstTick.foods
    /\ massOrbs = << >>
    /\ now = 0
    /\ nextUuid = AfterFirstTick.uuid
    /\ emitted = << >>
    /\ lastOp = NoOp
    /\ consumeLog = << >>
    /\ ticks = 0
    /\ steps = 0

SpecCrowd == InitCrowd /\ [][NextSpeed]_vars

\* ------------------------------------------------------------------------
\* Virus.popPlayer on the player map of the game world

\* Player constructor: `config.mass || 1`, `config.radius || 1`
Player(config) ==
    [id         |-> config.id,
     position   |-> config.position,
     mass       |-> IF config.mass # 0 THEN config.mass ELSE MassOne,
     radius     |-> IF config.radius # 0 THEN config.radius ELSE Unit,
     isFragment |-> config.isFragment]

\* a popPlayer that leaves the player its whole mass
PopPlayerKeepsMass(ps, id) ==
    LET player == Get(ps, id)
        numPieces == Min(15, FloorDiv(player.mass, 20 * MassOne))
        newMass == Quot(player.mass, numPieces)
        pieces == [i \in 1..(numPieces - 1) |->
                     Player([id |-> id \o << -1, i - 1 >>, position |-> player.position,
                             mass |-> newMass, radius |-> Cbrt(newMass),
                             isFragment |-> TRUE])]
        piece(q) == CHOOSE i \in 1..(numPieces - 1) : pieces[i].id = q
        isPiece(q) == \E i \in 1..(numPieces - 1) : pieces[i].id = q
    IN  IF numPieces <= 1 THEN ps
        ELSE [k \in 1..Len(ps) |->
                IF isPiece(ps[k].id) THEN pieces[piece(ps[k].id)]
                ELSE IF ps[k].id = id
                     THEN player
                     ELSE ps[k]]
             \o SelectSeq(pieces, LAMBDA q : ~Has(ps, q.id))

\* popPlayer(player, gameWorld): the player map of the game world after the
\* call. The piece ids player.id + '_piece_' + i are id \o <<-1, i>>, and
\* addPlayerFragment stores each piece with players.set(fragment.id, fragment),
\* which replaces an entry of the same id in its place in the map.
PopPlayer(ps, id) ==
    LET player == Get(ps, id)
        numPieces == Min(15, FloorDiv(player.mass, 20 * MassOne))
        newMass == Quot(player.mass, numPieces)
        pieces == [i \in 1..(numPieces - 1) |->
                     Player([id |-> id \o << -1, i - 1 >>, position |-> player.position,
                             mass |-> newMass, radius |-> Cbrt(newMass),
                             isFragment |-> TRUE])]
        piece(q) == CHOOSE i \in 1..(numPieces - 1) : pieces[i].id = q
        isPiece(q) == \E i \in 1..(numPieces - 1) : pieces[i].id = q
    IN  IF numPieces <= 1 THEN ps
        ELSE [k \in 1..Len(ps) |->
                IF isPiece(ps[k].id) THEN pieces[piece(ps[k].id)]
                ELSE IF ps[k].id = id
                     THEN [player EXCEPT !.mass = newMass, !.radius = Cbrt(newMass)]
                     ELSE ps[k]]
             \o SelectSeq(pieces, LAMBDA q : ~Has(ps, q.id))

\* two players larger than a virus (radius 2.5), of mass 16 to 700
InitPop ==
    \E m1 \in {16, 30, 40, 65, 100, 299, 300, 400, 700},
       m2 \in {16, 30, 40, 65, 100, 299, 300, 400, 700} :
       /\ sockets = [s \in SocketIds |-> IF s <= 2 THEN "open" ELSE "new"]
       /\ players = << Player([id |-> PlayerId(1), position |-> SpawnA,
                               mass |-> m1 * MassOne, radius |-> Cbrt(m1 * MassOne),
                               isFragment |-> FALSE]),
                       Player([id |-> PlayerId(2), position |-> Vec(0, 0, -60 * Unit),
                               mass |-> m2 * MassOne, radius |-> Cbrt(m2 * MassOne),
                               isFragment |-> FALSE]) >>
       /\ foods = << >>
       /\ massOrbs = << >>
       /\ now = 0
       /\ nextUuid = 1
       /\ emitted = << >>
       /\ lastOp = NoOp
       /\ consumeLog = << >>
       /\ ticks = 0
       /\ steps = 0

\* onCollision(player, gameWorld): if (player.radius > this.radius)
\* this.popPlayer(player, gameWorld), for a virus of the default radius 2.5
NextPop ==
    \E i \in 1..Len(players) :
       /\ players[i].radius > (5 * Unit) \div 2
       /\ players' = PopPlayer(players, players[i].id)
       /\ Handled("pop", i, NoData, << >>)
       /\ UNCHANGED << sockets, foods, massOrbs, now, nextUuid, consumeLog >>

SpecPop == InitPop /\ [][NextPop]_vars

\* ------------------------------------------------------------------------
\* Properties

\* C1: in a tick that resolves a consuming pair (and absorbs no projectile),
\* at the end of the tick the prey is absent from the player map and the
\* predator's mass is its mass when the pair was resolved plus 0.8 times the
\* prey's mass at that moment, granted once for the whole tick.
C1_ConsumptionGrantsOnce ==
    (/\ lastOp.op = "tick"
     /\ consumeLog # << >>
     /\ \A k \in 1..Len(emitted) : emitted[k].event # "massConsumed")
    => LET first == consumeLog[1]
       IN  /\ ~Has(players, first.prey)
           /\ Has(players, first.predator)
           /\ Get(players, first.predator).mass
                = first.predatorMass + Quot(8 * first.preyMass, 10)

\* C2: in every reachable state every player in the player map, a fragment
\* just created by a split included, has radius = cbrt(mass).
C2_RadiusIsCbrtOfMass ==
    \A i \in 1..Len(players) : players[i].radius = Cbrt(players[i].mass)

\* C3: in every reachable state every player's mass is strictly positive.
C3_MassPositive ==
    \A i \in 1..Len(players) : players[i].mass > 0

\* C4: a split by a player with mass m >= 2 leaves the parent with mass m/2
\* and puts exactly one fragment, of mass m/2, into the player map, so that
\* parent mass + fragment mass = m; no other entry of the map changes.
C4_SplitHalvesMass ==
    [][(/\ lastOp'.op = "split"
        /\ Has(players, PlayerId(lastOp'.socket))
        /\ Get(players, PlayerId(lastOp'.socket)).mass >= 2 * MassOne)
       => /\ Len(emitted') = 1
          /\ emitted'[1].event = "playerSplit"
          /\ LET id == PlayerId(lastOp'.socket)
                 m == Get(players, id).mass
                 fragmentId == emitted'[1].data.fragment.id
             IN  /\ fragmentId # id
                 /\ Has(players', id)
                 /\ Has(players', fragmentId)
                 /\ 2 * Get(players', id).mass = m
                 /\ 2 * Get(players', fragmentId).mass = m
                 /\ Get(players', id).mass + Get(players', fragmentId).mass = m
                 /\ Get(players', fragmentId).isFragment
                 /\ Get(players', fragmentId).parentId = id
                 /\ Ids(players') = Ids(players) \cup {fragmentId}
                 /\ \A i \in 1..Len(players) :
                        players[i].id \notin {id, fragmentId}
                        => Get(players', players[i].id) = players[i]]_vars

\* C4 witness: a split has gone through and its fragment carries the same
\* mass as its parent
C4_Witness ==
    /\ lastOp.op = "split"
    /\ Len(emitted) = 1
    /\ \E i \in 1..Len(players) :
          /\ players[i].isFragment
          /\ players[i].id = emitted[1].data.fragment.id
          /\ Has(players, players[i].parentId)
          /\ players[i].mass = Get(players, players[i].parentId).mass

\* C5: a move intent changes no player's position; it changes at most the
\* requesting player's velocity and rotation, and not the velocity when the
\* hint is within 0.1 of the current position.  The other requests that act
\* on a player in the world (split, boost, eject) and a disconnect change no
\* position either: positions change inside ticks.
C5_MoveKeepsPositions ==
    [][/\ lastOp'.op = "move"
          => /\ Len(players') = Len(players)
             /\ foods' = foods
             /\ massOrbs' = massOrbs
             /\ \A i \in 1..Len(players) :
                   /\ players'[i].position = players[i].position
                   /\ [players'[i] EXCEPT !.velocity = players[i].velocity,
                                          !.rotation = players[i].rotation]
                        = players[i]
                   /\ players[i].id # PlayerId(lastOp'.socket)
                        => players'[i] = players[i]
                   /\ (/\ lastOp'.data.hasPosition
                       /\ VLengthSq(VSub(lastOp'.data.position, players[i].position))
                            <= (Unit \div 10) * (Unit \div 10))
                        => players'[i].velocity = players[i].velocity
       /\ lastOp'.op \in {"split", "boost", "eject", "disconnect", "connect", "time"}
          => \A i \in 1..Len(players) :
                Has(players', players[i].id)
                => Get(players', players[i].id).position = players[i].position]_vars

\* C5 witness: a move intent has given its player a velocity
C5_Witness ==
    /\ lastOp.op = "move"
    /\ lastOp.data.hasPosition
    /\ Has(players, PlayerId(lastOp.socket))
    /\ Get(players, PlayerId(lastOp.socket)).velocity # Zero3

\* C6: at the end of every tick every player's position lies within
\* [-worldSize/2, +worldSize/2] on each axis.
C6_PlayersInsideWorld ==
    lastOp.op = "tick"
    => \A i \in 1..Len(players) :
          /\ Abs(players[i].position.x) <= halfExtent
          /\ Abs(players[i].position.y) <= halfExtent
          /\ Abs(players[i].position.z) <= halfExtent

\* C8: a disconnect for an id that has no player (a second disconnect, an id
\* that never joined or was consumed) changes no state and emits nothing;
\* a disconnect removes or alters no other player.
C8_DisconnectIdempotent ==
    [][lastOp'.op = "disconnect"
       => /\ ~Has(players, PlayerId(lastOp'.socket))
             => /\ players' = players
                /\ foods' = foods
                /\ massOrbs' = massOrbs
                /\ nextUuid' = nextUuid
                /\ emitted' = << >>
          /\ \A i \in 1..Len(players) :
                players[i].id # PlayerId(lastOp'.socket)
                => /\ Has(players', players[i].id)
                   /\ Get(players', players[i].id) = players[i]]_vars

\* C8 witness: a disconnect for an id with no player has run in a world
\* that holds other players
C8_Witness ==
    /\ lastOp.op = "disconnect"
    /\ emitted = << >>
    /\ players # << >>
    /\ ~Has(players, PlayerId(lastOp.socket))

\* C7: a join request received while the player map holds maxPlayers
\* entries or more leaves the player map and the rest of the world unchanged;
\* its only effect is an error serverMessage to the requesting socket.
C7_JoinRefusedWhenFull ==
    [][(lastOp'.op = "join" /\ Len(players) >= maxPlayers)
       => /\ players' = players
          /\ foods' = foods
          /\ massOrbs' = massOrbs
          /\ nextUuid' = nextUuid
          /\ emitted' = << Msg(ToSocket(lastOp'.socket), "serverMessage",
                               [type |-> "error"]) >>]_vars

\* C7 witness: a join has been refused in a full world
C7_Witness ==
    /\ lastOp.op = "join"
    /\ Len(players) >= maxPlayers
    /\ ~Has(players, PlayerId(lastOp.socket))
    /\ emitted = << Msg(ToSocket(lastOp.socket), "serverMessage", [type |-> "error"]) >>

\* C9: in every reachable state, from the initial spawn on, the food map
\* holds at most maxFood items.
C9_FoodAtMostMax ==
    Len(foods) <= maxFood

\* C9 witness: a tick has run on the full food map
C9_Witness ==
    /\ lastOp.op = "tick"
    /\ Len(foods) = maxFood

\* C10: when the food count is below minFood (and the ticks still to come
\* are as many as the items missing), the count reaches minFood unless a
\* tick consumes food; and a step that consumes no food never takes the
\* count from minFood or more to less than minFood.
C10_FoodRefills ==
    /\ (Len(foods) < minFood /\ minFood - Len(foods) <= MaxTicks - ticks)
       ~> (\/ Len(foods) >= minFood
           \/ \E k \in 1..Len(emitted) : emitted[k].event = "foodConsumed")
    /\ [][(/\ Len(foods) >= minFood
           /\ \A k \in 1..Len(emitted') : emitted'[k].event # "foodConsumed")
          => Len(foods') >= minFood]_vars

\* C10 witness: the count has been brought to minFood by the respawn
C10_Witness ==
    /\ lastOp.op = "tick"
    /\ Len(foods) = minFood
    /\ \E k \in 1..Len(emitted) : emitted[k].event = "foodSpawned"

\* C11: in a tick that updates one projectile (and in which no food and no
\* player is consumed), the player that ejected it does not absorb it while
\* less than 1000 ms have passed since its creation; once 1000 ms have
\* passed and until it expires, the first player of the map that overlaps
\* it absorbs it, the owner as any other player: its mass grows by the mass
\* of the projectile, the projectile leaves the map and massConsumed is sent.
C11_OwnerImmunity ==
    [][(/\ lastOp'.op = "tick"
        /\ Len(massOrbs) = 1
        /\ Len(players') = Len(players)
        /\ \A k \in 1..Len(emitted') :
              emitted'[k].event \notin {"foodConsumed", "playerConsumed"})
       => LET o == massOrbs[1]
              age == now - o.creationTime
              moved == MoveMassOrb(o)
              Owner(i) == players[i].id = o.ownerId
              Touches(i) == SphereCollision(moved.position, moved.radius,
                                            players'[i].position, players[i].radius)
              Eligible(i) == Touches(i) /\ ~(Owner(i) /\ age < 1000)
              Absorbed(i) ==
                  /\ players'[i].mass = players[i].mass + o.mass
                  /\ massOrbs' = << >>
                  /\ \E k \in 1..Len(emitted') :
                        /\ emitted'[k].event = "massConsumed"
                        /\ emitted'[k].data.massId = o.id
          IN  \A i \in 1..Len(players) :
                 /\ (Owner(i) /\ age < 1000) => players'[i].mass = players[i].mass
                 /\ (/\ age <= o.lifespan
                     /\ Eligible(i)
                     /\ \A j \in 1..(i - 1) : ~Eligible(j))
                    => Absorbed(i)
                 /\ (\A j \in 1..Len(players) : ~Eligible(j))
                    => players'[i].mass = players[i].mass]_vars

\* C11 witness: the only player there has been absorbed its own projectile
\* after the window
C11_Witness ==
    /\ lastOp.op = "tick"
    /\ now >= 1000
    /\ massOrbs = << >>
    /\ \E k \in 1..Len(emitted) : emitted[k].event = "massConsumed"
    /\ Len(players) = 1
    /\ players[1].id = PlayerId(1)
    /\ \A s \in SocketIds : s # 1 => sockets[s] = "new"

\* C12: a tick that starts with two players of comparable mass (neither
\* mass exceeds 1.2 times the other) which overlap when the pair is resolved
\* (they still overlap at the end of the tick, the push-apart only taking
\* them apart), and in which no food and no projectile is absorbed, removes
\* neither player and leaves the mass, the
\* playersEaten and foodEaten counters and the score of both as they were;
\* the score moves only by the survival bonus of a player whose timeAlive
\* has reached a whole multiple of 60 seconds.
C12_ComparableBounce ==
    [][(/\ lastOp'.op = "tick"
        /\ Len(players) = 2
        /\ ~(10 * players[1].mass > 12 * players[2].mass)
        /\ ~(10 * players[2].mass > 12 * players[1].mass)
        /\ Len(players') = 2 =>
              SphereCollision(players'[1].position, players[1].radius,
                              players'[2].position, players[2].radius)
        /\ \A k \in 1..Len(emitted') :
              emitted'[k].event \notin {"foodConsumed", "massConsumed"})
       => /\ Len(players') = 2
          /\ \A k \in 1..Len(emitted') : emitted'[k].event # "playerConsumed"
          /\ \A i \in 1..2 :
                /\ players'[i].id = players[i].id
                /\ players'[i].mass = players[i].mass
                /\ players'[i].playersEaten = players[i].playersEaten
                /\ players'[i].foodEaten = players[i].foodEaten
                /\ players'[i].score =
                     players[i].score
                     + (IF /\ players[i].timeAlive > 0
                           /\ players[i].timeAlive % (60 * tickRate) = 0
                        THEN 10 * MassOne ELSE 0)]_vars

\* C13: in a tick, a player that absorbs nothing gains the survival bonus
\* of 10 when its timeAlive has reached a whole multiple of 60 seconds
\* with the previous tick, once, and gains nothing otherwise; a player
\* that has been alive for less than 60 seconds and has absorbed nothing
\* has score 0, its first tick (timeAlive 0) included.
C13_SurvivalBonusOnCrossing ==
    [][lastOp'.op = "tick"
       => \A i \in 1..Len(players) :
             (/\ Has(players', players[i].id)
              /\ Get(players', players[i].id).foodEaten = players[i].foodEaten)
             => LET p == players[i]
                    q == Get(players', p.id)
                IN  /\ q.score = p.score
                                 + (IF /\ p.timeAlive > 0
                                       /\ p.timeAlive % (60 * tickRate) = 0
                                    THEN 10 * MassOne ELSE 0)
                    /\ (q.timeAlive < 60 * tickRate /\ q.foodEaten = 0)
                       => q.score = 0]_vars

\* C14: a move intent whose hint is farther than 0.1 from the player gives
\* the player the speed 10 / (1 + floor(mass / 10) * 0.3), computed on the
\* mass the player has when the intent arrives.
C14_MoveSpeedFollowsTier ==
    [][(/\ lastOp'.op = "move"
        /\ lastOp'.data.hasPosition
        /\ Has(players, PlayerId(lastOp'.socket))
        /\ VLengthSq(VSub(lastOp'.data.position,
                          Get(players, PlayerId(lastOp'.socket)).position))
             > (Unit \div 10) * (Unit \div 10))
       => LET p == Get(players, PlayerId(lastOp'.socket))
          IN  VLength(Get(players', p.id).velocity)
                = Quot(10 * Unit * 10, 10 + 3 * MassTier(p.mass))]_vars

\* C15: of two players in different mass tiers, the one in the lower tier
\* is given by a move intent a speed at least that given to the other.
C15_SpeedMonotoneInTier ==
    \A i \in 1..Len(players), j \in 1..Len(players) :
       MassTier(players[i].mass) < MassTier(players[j].mass)
       => MoveSpeed(players[i]) >= MoveSpeed(players[j])

C17_OwnEntryAndRank ==
    lastOp.op = "tick"
    => \A i \in 1..Len(players) :
          LET sent == {k \in 1..Len(emitted) :
                          /\ emitted[k].event = "leaderboard"
                          /\ emitted[k].to = ToRoom(players[i].id)}
              place == Cardinality({j \in 1..Len(players) :
                                       \/ players[j].score > players[i].score
                                       \/ /\ players[j].score = players[i].score
                                          /\ j <= i})
          IN  /\ Cardinality(sent) = 1
              /\ \A k \in sent :
                    LET board == emitted[k].data
                        own == {e \in 1..Len(board) : board[e].isLocalPlayer}
                    IN  /\ Cardinality(own) = 1
                        /\ \A e \in own : /\ board[e].id = players[i].id
                                          /\ board[e].rank = place

\* C17 witness: a tick has sent a player outside the top 10 its leaderboard
C17_Witness ==
    /\ lastOp.op = "tick"
    /\ Len(players) > 10
    /\ \E k \in 1..Len(emitted) :
          /\ emitted[k].event = "leaderboard"
          /\ Len(emitted[k].data) = 11
          /\ emitted[k].data[11].isLocalPlayer
          /\ emitted[k].data[11].rank > 10

\* C18: the first min(10, N) entries of every leaderboard sent in a tick
\* carry the ranks 1, 2, ..., name players of the world, no player twice,
\* in non-increasing order of score, and no player left out of them has a
\* higher score than one of them.
C18_TopTenByScore ==
    lastOp.op = "tick"
    => \A k \in 1..Len(emitted) :
          emitted[k].event = "leaderboard"
          => LET board == emitted[k].data
                 n == Min(10, Len(players))
             IN  /\ Len(board) >= n
                 /\ \A e \in 1..n :
                       /\ board[e].rank = e
                       /\ Has(players, board[e].id)
                       /\ board[e].score = FloorDiv(Get(players, board[e].id).score, MassOne)
                 /\ \A e \in 1..n, f \in 1..n :
                       e < f => /\ board[e].id # board[f].id
                                /\ Get(players, board[e].id).score
                                     >= Get(players, board[f].id).score
                 /\ \A i \in 1..Len(players) :
                       (\A e \in 1..n : board[e].id # players[i].id)
                       => \A e \in 1..n :
                             players[i].score <= Get(players, board[e].id).score

\* C18 witness: a tick has sent the leaderboard of a world of more than 10
\* players that the map does not hold in the order of their scores
C18_Witness ==
    /\ lastOp.op = "tick"
    /\ Len(players) > 10
    /\ \E i \in 1..Len(players), j \in 1..Len(players) :
          i < j /\ players[i].score < players[j].score
    /\ \E k \in 1..Len(emitted) : emitted[k].event = "leaderboard"

\* C19: the score of a player never decreases while the player stays in
\* the world: no handler and no tick takes the score of a player that is
\* in the player map before and after it below what it was.
C19_ScoreNeverDecreases ==
    [][\A i \in 1..Len(players) :
          Has(players', players[i].id)
          => Get(players', players[i].id).score >= players[i].score]_vars

\* C20: what the players eat does not depend on the hover state of the
\* food.  After any number of ticks with no request in between, the masses
\* of the players and the foodConsumed notices of the last tick are those
\* of every world that differs from this one in the hover fields of the
\* food only and has been through the same ticks.
C20_HoverDoesNotDecideEating ==
    (lastOp.op = "tick" /\ steps = 0)
    => \A h \in HoverStates :
          LET twin == HoverRun(h, ticks)
              Eaten(msgs) == SelectSeq(msgs, LAMBDA m : m.event = "foodConsumed")
          IN  /\ Len(twin.players) = Len(players)
              /\ \A i \in 1..Len(players) :
                    /\ twin.players[i].id = players[i].id
                    /\ twin.players[i].mass = players[i].mass
              /\ Eaten(twin.msgs) = Eaten(emitted)

\* C21: a split request from a player with mass < 2 creates no fragment,
\* leaves that player's mass and radius and the whole player map unchanged
\* and emits no playerSplit event.
C21_NoSplitBelowThreshold ==
    [][(/\ lastOp'.op = "split"
        /\ Has(players, PlayerId(lastOp'.socket))
        /\ Get(players, PlayerId(lastOp'.socket)).mass < 2 * MassOne)
       => /\ players' = players
          /\ Len(players') = Len(players)
          /\ Get(players', PlayerId(lastOp'.socket)).mass
                = Get(players, PlayerId(lastOp'.socket)).mass
          /\ Get(players', PlayerId(lastOp'.socket)).radius
                = Get(players, PlayerId(lastOp'.socket)).radius
          /\ \A k \in 1..Len(emitted') : emitted'[k].event # "playerSplit"]_vars

\* C21 witness: a split request of a player with mass below 2 has been
\* handled and nothing was emitted
C21_Witness ==
    /\ lastOp.op = "split"
    /\ Has(players, PlayerId(lastOp.socket))
    /\ Get(players, PlayerId(lastOp.socket)).mass < 2 * MassOne
    /\ Get(players, PlayerId(lastOp.socket)).mass > 0
    /\ emitted = << >>

\* C22: an eject-mass request from a player with mass below the
\* minimum-to-eject threshold (2) creates no projectile, leaves the mass of
\* the player unchanged and emits no massEjected event.
C22_NoEjectBelowThreshold ==
    [][(/\ lastOp'.op = "eject"
        /\ Has(players, PlayerId(lastOp'.socket))
        /\ Get(players, PlayerId(lastOp'.socket)).mass < MIN_MASS_TO_EJECT * MassOne)
       => /\ massOrbs' = massOrbs
          /\ nextUuid' = nextUuid
          /\ Has(players', PlayerId(lastOp'.socket))
          /\ Get(players', PlayerId(lastOp'.socket)).mass
                = Get(players, PlayerId(lastOp'.socket)).mass
          /\ \A k \in 1..Len(emitted') : emitted'[k].event # "massEjected"]_vars

\* C22 witness: an eject request of a player with a positive mass below 2
\* has been handled, with no projectile in the world
C22_Witness ==
    /\ lastOp.op = "eject"
    /\ Has(players, PlayerId(lastOp.socket))
    /\ Get(players, PlayerId(lastOp.socket)).mass < MIN_MASS_TO_EJECT * MassOne
    /\ Get(players, PlayerId(lastOp.socket)).mass >= MassOne
    /\ massOrbs = << >>
    /\ emitted = << >>

\* C23: a boost request from a player whose mass exceeds the boost cost and
\* who has no active boost or cooldown succeeds: it deducts the fixed mass
\* cost (and activates the speed multiplier and the cooldown); a request
\* with mass <= cost changes no state.  The server keeps no boost or
\* cooldown state, so no boost is ever active; the cost is the boostCost of
\* the Player class, 3.
C23_BoostDeductsCost ==
    [][lastOp'.op = "boost" /\ Has(players, PlayerId(lastOp'.socket))
       => LET boostCost == 3 * MassOne
              p == Get(players, PlayerId(lastOp'.socket))
          IN  IF p.mass > boostCost
              THEN /\ Has(players', p.id)
                   /\ Get(players', p.id).mass = p.mass - boostCost
              ELSE players' = players]_vars

\* C24: player-count notices and join success/failure server messages are
\* delivered only to the session whose connection or join request caused
\* them; no such notice reaches any other connected session.
C24_NoticesOnlyToOriginator ==
    \A k \in 1..Len(emitted), s \in SocketIds :
       LET to == emitted[k].to
           received == \/ to.kind = "all"
                       \/ to.kind = "socket" /\ to.id = s
                       \/ to.kind = "others" /\ to.id # s
                       \/ to.kind = "room" /\ to.id = PlayerId(s)
       IN  (/\ emitted[k].event \in {"playerCount", "serverMessage"}
            /\ sockets[s] = "open"
            /\ received)
           => s = lastOp.socket

\* C25: a move, split, boost or eject request whose session id has no
\* player in the world (never joined, consumed or gone) is a no-op: it
\* changes no player, food or projectile and emits no game event.
C25_UnknownPlayerNoOp ==
    [][(/\ lastOp'.op \in {"move", "split", "boost", "eject"}
        /\ ~Has(players, PlayerId(lastOp'.socket)))
       => /\ players' = players
          /\ foods' = foods
          /\ massOrbs' = massOrbs
          /\ nextUuid' = nextUuid
          /\ emitted' = << >>]_vars

\* C25 witness: a request other than a join has been handled for a session
\* that has no player, in a world that holds players and food
C25_Witness ==
    /\ lastOp.op \in {"move", "split", "boost", "eject"}
    /\ ~Has(players, PlayerId(lastOp.socket))
    /\ players # << >>
    /\ foods # << >>
    /\ emitted = << >>

\* C26: when the session that owns a parent player disconnects, only the
\* entry of the parent is removed: every fragment split from it stays in
\* the player map with its mass, position and score unchanged, and the
\* ticks that follow keep simulating it as a player of its own.
C26_FragmentsOutliveParent ==
    [][/\ lastOp'.op = "disconnect"
          => /\ \A i \in 1..Len(players) :
                   players[i].parentId = PlayerId(lastOp'.socket)
                   => /\ Has(players', players[i].id)
                      /\ Get(players', players[i].id) = players[i]
             /\ Len(players') = Len(players)
                   - (IF Has(players, PlayerId(lastOp'.socket)) THEN 1 ELSE 0)
       /\ (/\ lastOp'.op = "tick"
           /\ \A k \in 1..Len(emitted') : emitted'[k].event # "playerConsumed")
          => \A i \in 1..Len(players) :
                (players[i].isFragment /\ ~Has(players, players[i].parentId))
                => /\ Has(players', players[i].id)
                   /\ Get(players', players[i].id).timeAlive = players[i].timeAlive + 1
                   /\ Get(players', players[i].id).mass >= players[i].mass
                   /\ \E k \in 1..Len(emitted') :
                         /\ emitted'[k].event = "gameState"
                         /\ \E n \in 1..Len(emitted'[k].data.players) :
                               emitted'[k].data.players[n].id = players[i].id]_vars

\* C26 witness: a tick has run on a fragment whose parent left with its
\* session
C26_Witness ==
    /\ lastOp.op = "tick"
    /\ \E i \in 1..Len(players) :
          /\ players[i].isFragment
          /\ ~Has(players, players[i].parentId)
          /\ sockets[players[i].parentId[1]] = "closed"
          /\ players[i].timeAlive >= 1
          /\ players[i].mass > 0

\* C27: every projectile is removed in the end.  While ticks continue, a
\* projectile whose age exceeds its lifespan (30000 ms) is gone after the
\* next tick; the tick removes it without anyone absorbing it (no
\* massConsumed for it, and no player grows when nothing else was eaten);
\* and no projectile older than its lifespan is left after a tick.
C27_ProjectilesExpire ==
    /\ \A u \in 1..(NearFood + MaxSteps + MaxTicks + 1) :
          (/\ Has(massOrbs, u)
           /\ now - Get(massOrbs, u).creationTime > Get(massOrbs, u).lifespan
           /\ ticks < MaxTicks)
          ~> ~Has(massOrbs, u)
    /\ [][lastOp'.op = "tick"
          => /\ \A k \in 1..Len(massOrbs) :
                   now - massOrbs[k].creationTime > massOrbs[k].lifespan
                   => /\ ~Has(massOrbs', massOrbs[k].id)
                      /\ \A m \in 1..Len(emitted') :
                            emitted'[m].event = "massConsumed"
                            => emitted'[m].data.massId # massOrbs[k].id
             /\ (/\ \A k \in 1..Len(massOrbs) :
                       now - massOrbs[k].creationTime > massOrbs[k].lifespan
                 /\ \A m \in 1..Len(emitted') :
                       emitted'[m].event \notin {"foodConsumed", "playerConsumed"})
                => \A i \in 1..Len(players) :
                      /\ Has(players', players[i].id)
                      /\ Get(players', players[i].id).mass = players[i].mass
             /\ \A k \in 1..Len(massOrbs') :
                   now' - massOrbs'[k].creationTime <= massOrbs'[k].lifespan]_vars

\* C27 witness: the only tick so far has removed a projectile older than
\* its lifespan that nobody had absorbed
C27_Witness ==
    /\ lastOp.op = "tick"
    /\ ticks = 1
    /\ now > 30000
    /\ nextUuid > AfterFirstTick.uuid + 1
    /\ massOrbs = << >>
    /\ \A m \in 1..Len(emitted) : emitted[m].event # "massConsumed"
    /\ Len(players) = 1
    /\ players[1].mass < AfterFirstTick.players[1].mass

\* C28: Grow(amount) increases the mass of the player by exactly amount,
\* its score by exactly 10 * amount and its foodEaten counter by 1,
\* re-derives the radius from the new mass (the cube root, to 0.01), and
\* leaves position, velocity and every other player unchanged.
C28_GrowAddsMassAndScore ==
    [][lastOp'.op = "grow"
       => LET i == lastOp'.socket
              amount == lastOp'.data.amount
              q == players'[i]
          IN  /\ Len(players') = Len(players)
              /\ q.id = players[i].id
              /\ q.mass = players[i].mass + amount
              /\ q.score = players[i].score + 10 * amount
              /\ q.foodEaten = players[i].foodEaten + 1
              /\ q.radius * q.radius * q.radius
                    <= q.mass * ((Unit * Unit * Unit) \div MassOne)
              /\ (q.radius + 1) * (q.radius + 1) * (q.radius + 1)
                    > q.mass * ((Unit * Unit * Unit) \div MassOne)
              /\ q.position = players[i].position
              /\ q.velocity = players[i].velocity
              /\ \A j \in 1..Len(players) : j # i => players'[j] = players[j]]_vars

\* C28 witness: a player of mass 1 has grown by 0.15 and stands at mass
\* 1.15 and score 1.5
C28_Witness ==
    /\ lastOp.op = "grow"
    /\ lastOp.data.amount = 15 * (MassOne \div 100)
    /\ players[lastOp.socket].mass = 115 * (MassOne \div 100)
    /\ players[lastOp.socket].score = 15 * (MassOne \div 10)
    /\ players[lastOp.socket].foodEaten = 1
    /\ players[lastOp.socket].radius \in {104, 105}

\* C30: each food item is consumed at most once: in any tick at most one
\* player is credited with a given food item (one foodConsumed notice and
\* one grow per item), even when several players overlap it, and the item
\* is absent from the food map at the end of that tick.
C30_FoodEatenOnce ==
    lastOp.op = "tick"
    => \A k \in 1..Len(emitted), m \in 1..Len(emitted) :
          (emitted[k].event = "foodConsumed" /\ emitted[m].event = "foodConsumed")
          => /\ ~Has(foods, emitted[k].data.foodId)
             /\ emitted[k].data.foodId = emitted[m].data.foodId
                   => emitted[k].data.playerId = emitted[m].data.playerId

\* C31: every unordered pair of players that overlaps with a mass ratio
\* above 1.2 when the player-vs-player step of a tick runs is resolved in
\* that tick, the smaller being removed, also when the tick has more than
\* one such pair.  The pairs taken are those of players at rest in a tick
\* that consumes no food, which overlap in the same way when the step runs.
C31_EveryPairResolved ==
    [][(/\ lastOp'.op = "tick"
        /\ \A m \in 1..Len(emitted') : emitted'[m].event # "foodConsumed")
       => \A i \in 1..Len(players), j \in 1..Len(players) :
             (/\ players[i].velocity = Zero3
              /\ players[j].velocity = Zero3
              /\ SphereCollision(players[i].position, players[i].radius,
                                 players[j].position, players[j].radius)
              /\ 10 * players[i].mass > 12 * players[j].mass)
             => ~Has(players', players[j].id)]_vars

\* C32: every successful split increases the number of players by exactly
\* one and preserves the total mass of all players, whatever the timing of
\* successive splits (two splits of one player in the same millisecond
\* included): the fragment is a new entry, every player but the parent
\* keeps its mass, and parent and fragment share the mass of the parent.
C32_SplitAddsOnePlayer ==
    [][(/\ lastOp'.op = "split"
        /\ \E m \in 1..Len(emitted') : emitted'[m].event = "playerSplit")
       => /\ Len(players') = Len(players) + 1
          /\ \A i \in 1..Len(players) :
                /\ Has(players', players[i].id)
                /\ players[i].id # PlayerId(lastOp'.socket)
                   => Get(players', players[i].id).mass = players[i].mass
          /\ \E k \in 1..Len(players') :
                /\ ~Has(players, players'[k].id)
                /\ players'[k].mass + Get(players', PlayerId(lastOp'.socket)).mass
                      = Get(players, PlayerId(lastOp'.socket)).mass]_vars

\* C33: in every reachable state the number of entries of the player map
\* (connected players plus split fragments) is at most maxPlayers.
C33_AtMostMaxPlayers == Len(players) <= maxPlayers

\* C34: a join request from a session that already owns a live player does
\* not replace or reset that player: its mass, score, position and
\* timeAlive are unchanged and the player count is unchanged.
C34_RejoinKeepsPlayer ==
    [][(/\ lastOp'.op = "join"
        /\ Has(players, PlayerId(lastOp'.socket)))
       => /\ Len(players') = Len(players)
          /\ Has(players', PlayerId(lastOp'.socket))
          /\ Get(players', PlayerId(lastOp'.socket)).mass
                = Get(players, PlayerId(lastOp'.socket)).mass
          /\ Get(players', PlayerId(lastOp'.socket)).score
                = Get(players, PlayerId(lastOp'.socket)).score
          /\ Get(players', PlayerId(lastOp'.socket)).position
                = Get(players, PlayerId(lastOp'.socket)).position
          /\ Get(players', PlayerId(lastOp'.socket)).timeAlive
                = Get(players, PlayerId(lastOp'.socket)).timeAlive]_vars

\* C35: on a successful eject the mass of the player decreases by exactly
\* the ejected amount (the amount the client asked for, or 1 when none is
\* given) and the mass of the new projectile equals that amount, so player
\* plus projectile weigh what the player weighed before; exactly one
\* projectile is added to the world.
C35_EjectMovesMass ==
    [][(/\ lastOp'.op = "eject"
        /\ \E m \in 1..Len(emitted') : emitted'[m].event = "massEjected")
       => LET id == PlayerId(lastOp'.socket)
              amount == IF lastOp'.data.mass # 0 THEN lastOp'.data.mass ELSE MassOne
          IN  /\ Get(players', id).mass = Get(players, id).mass - amount
              /\ Len(massOrbs') = Len(massOrbs) + 1
              /\ \A k \in 1..Len(massOrbs) : Has(massOrbs', massOrbs[k].id)
              /\ \A k \in 1..Len(massOrbs') :
                    ~Has(massOrbs, massOrbs'[k].id)
                    => /\ massOrbs'[k].mass = amount
                       /\ massOrbs'[k].mass + Get(players', id).mass
                             = Get(players, id).mass
              /\ \A i \in 1..Len(players) :
                    players[i].id # id => Get(players', players[i].id) = players[i]]_vars

\* C35 witness: an eject with an amount taken from the client has added a
\* projectile to a world that held one already
C35_Witness ==
    /\ lastOp.op = "eject"
    /\ lastOp.data.mass = MassOne \div 2
    /\ Len(massOrbs) = 2
    /\ massOrbs[2].mass = MassOne \div 2
    /\ \E m \in 1..Len(emitted) : emitted[m].event = "massEjected"

\* C36: the spawn position of an ejected projectile is derived from the
\* position the server holds for the player (radius + 0.5 along the
\* ejection direction) and does not depend on a position sent by the
\* client: the projectile lies where the same request without a position
\* puts it.
C36_SpawnIgnoresClientPosition ==
    [][(/\ lastOp'.op = "eject"
        /\ \E m \in 1..Len(emitted') : emitted'[m].event = "massEjected")
       => \A k \in 1..Len(massOrbs') :
             ~Has(massOrbs, massOrbs'[k].id)
             => massOrbs'[k].position
                   = EjectOrb(Get(players, PlayerId(lastOp'.socket)),
                              [lastOp'.data EXCEPT !.hasPosition = FALSE],
                              nextUuid, now).position]_vars

C38_BounceRemovesOverlap ==
    \A i \in 1..Len(players), j \in 1..Len(players) :
       (/\ i < j
        /\ players[i].position # players[j].position
        /\ SphereCollision(players[i].position, players[i].radius,
                           players[j].position, players[j].radius)
        /\ ~(10 * players[i].mass > 12 * players[j].mass)
        /\ ~(10 * players[j].mass > 12 * players[i].mass))
       => LET pair == ResolveCollision(players[i], players[j])
              moved1 == VLength(VSub(pair[1].position, players[i].position))
              moved2 == VLength(VSub(pair[2].position, players[j].position))
          IN  /\ VLength(VSub(pair[2].position, pair[1].position))
                    >= players[i].radius + players[j].radius
              /\ players[i].mass > players[j].mass => moved1 <= moved2
              /\ players[j].mass > players[i].mass => moved2 <= moved1

\* C39: when a hazard pops a player of mass m, the player is divided into
\* n = min(15, floor(m / 20)) pieces, the player itself and the n - 1
\* fragments the pop creates, each of mass m / n, so that the pieces weigh m
\* together (to the resolution of the masses), and nothing else is created
\* or changed beside the entries that bear the ids of the fragments; when
\* n <= 1 no fragment is created and the mass of the player is unchanged.
C39_PopDividesMass ==
    [][lastOp'.op = "pop"
       => LET p == players[lastOp'.socket]
              byTwenty == p.mass \div (20 * MassOne)
              n == IF byTwenty < 15 THEN byTwenty ELSE 15
              created == {p.id \o << -1, i >> : i \in 0..(n - 2)}
              pieceMass == Get(players', p.id).mass
          IN  IF n <= 1
              THEN players' = players
              ELSE /\ \A q \in created : Has(players', q)
                                         /\ Get(players', q).mass = pieceMass
                                         /\ Get(players', q).isFragment
                   /\ Cardinality(created) = n - 1
                   /\ n * pieceMass <= p.mass
                   /\ n * pieceMass > p.mass - n
                   /\ \A k \in 1..Len(players') :
                         \/ players'[k].id \in created \cup {p.id}
                         \/ /\ Has(players, players'[k].id)
                            /\ Get(players, players'[k].id) = players'[k]
                   /\ \A j \in 1..Len(players) : Has(players', players[j].id)
                   /\ \A j, k \in 1..Len(players') :
                         players'[j].id = players'[k].id => j = k]_vars

\* C39 witness: a player of mass 400 has been popped into 15 pieces, and a
\* player of mass 30, too light to be divided, has kept its mass
C39_Witness ==
    /\ lastOp.op = "pop"
    /\ Len(players) = 16
    /\ players[1].mass = (400 * MassOne) \div 15
    /\ players[2].mass = 30 * MassOne
    /\ steps = 2

====
